---------------------------- MODULE Spec2Model ----------------------------
(***************************************************************************)
(* A model of the user-data synchronisation service                         *)
(* (src/src/vs/platform/userDataSync/common/userDataSyncService.ts, the     *)
(* second UserDataSyncService class of that file, lines 301-726, and        *)
(* ManualSyncTask, lines 728-855).                                          *)
(*                                                                         *)
(* The specifications that share the module:                                *)
(*   SpecStatus     computeStatus() as a pure function of its inputs        *)
(*   SpecConflicts  the conflicts and statuses the synchronisers report     *)
(*   Spec           the orchestrator: sync tasks, passes, status events     *)
(*   SpecErrors     the orchestrator with synchronisers that throw          *)
(*   SpecPass       one pass with throws, status events and stop()          *)
(*   SpecTwoPasses  two passes with synchronisers that throw                *)
(*   SpecManual     one ManualSyncTask over the synchronisers               *)
(*   SpecOverlap    calls on a ManualSyncTask while its accept() waits      *)
(*   SpecApi        the orchestrator's other public operations              *)
(***************************************************************************)
EXTENDS Integers, Sequences, FiniteSets, TLC

(***************************************************************************)
(* Synchronisers, in the fixed order of the constructor (line 350).         *)
(***************************************************************************)
synchronisers == <<"settings", "keybindings", "snippets", "globalState", "extensions">>

NumSynchronisers == Len(synchronisers)

SyncIdx == 1..NumSynchronisers

\* enum SyncStatus
SyncStatus == {"Uninitialized", "Idle", "Syncing", "HasConflicts"}

VARIABLES
    \* ---- SpecStatus: inputs and results of computeStatus()
    csStore,        \* userDataSyncStoreService.userDataSyncStore is set
    csStatuses,     \* the synchronisers' statuses, in list order
    csOut,          \* computeStatus() over csStatuses
    csOutPerm,      \* computeStatus() over a permutation of csStatuses
    \* ---- SpecConflicts: the conflicts the synchronisers report
    ccStore,        \* userDataSyncStoreService.userDataSyncStore is set
    ccSynchronisers,\* each synchroniser's status and conflicts
    ccService,      \* _status, _conflicts with its entries in full, _lastSyncTime
    ccPasses,       \* the sync() calls between their setStatus and their finally
    ccLast,         \* the service method that ran last
    \* ---- Spec: the orchestrator (UserDataSyncService) and its collaborators
    storeConfigured,    \* userDataSyncStoreService.userDataSyncStore is set
    sStatus,            \* each synchroniser's own status
    status,             \* _status
    conflicts,          \* _conflicts: the resources of its entries, in order
    lastSyncTime,       \* _lastSyncTime
    storage,            \* the value stored under LAST_SYNC_TIME_KEY
    clock,              \* new Date().getTime()
    recoveredSettings,  \* recoveredSettings
    syncErrors,         \* _syncErrors
    taskCreated,        \* createSyncTask() has returned the task
    executed,           \* the task closure's executed
    cancellablePromise, \* the task closure's cancellablePromise: 0 or a pass
    pass,               \* the sync() calls started by run(), by number
    stopAt,             \* orchestrator stop(): 0, or the synchroniser whose stop() is awaited
    lastError,          \* the error the last public call failed with, or "none"
    \* ---- SpecManual: one ManualSyncTask and the arrays it holds
    previewsPromise,    \* previewsPromise: 0 or the number of a getPreviews() call
    previews,           \* previews: 0 or the array it refers to
    arrays,             \* the [SyncResource, ISyncResourcePreview][] arrays, by number
    fetches,            \* the getPreviews() calls, by number
    ops,                \* the calls made on the task, in call order
    \* ---- SpecApi: the orchestrator's public operations, called one at a time
    api,                \* the operation in flight, or the last one that settled
    apiCalls            \* the number of operations called

statusVars == <<csStore, csStatuses, csOut, csOutPerm,
                ccStore, ccSynchronisers, ccService, ccPasses, ccLast>>

syncVars == <<storeConfigured, sStatus, status, conflicts, lastSyncTime, storage, clock,
              recoveredSettings, syncErrors, taskCreated, executed, cancellablePromise,
              pass, stopAt, lastError>>

manualVars == <<previewsPromise, previews, arrays, fetches, ops>>

apiVars == <<api, apiCalls>>

vars == <<csStore, csStatuses, csOut, csOutPerm,
          ccStore, ccSynchronisers, ccService, ccPasses, ccLast,
          storeConfigured, sStatus, status, conflicts, lastSyncTime, storage, clock,
          recoveredSettings, syncErrors, taskCreated, executed, cancellablePromise,
          pass, stopAt, lastError,
          previewsPromise, previews, arrays, fetches, ops,
          api, apiCalls>>

(***************************************************************************)
(* Array.prototype.some over a sequence: scans left to right and stops at   *)
(* the first element that satisfies the test.                               *)
(***************************************************************************)
RECURSIVE SomeStatus(_, _)
SomeStatus(statuses, wanted) ==
    IF statuses = <<>> THEN FALSE
    ELSE IF Head(statuses) = wanted THEN TRUE
    ELSE SomeStatus(Tail(statuses), wanted)

\* A plausible slip: the status of the first synchroniser that is not Idle wins.
RECURSIVE FirstBusyStatus(_)
FirstBusyStatus(statuses) ==
    IF statuses = <<>> THEN "Idle"
    ELSE IF Head(statuses) \in {"Syncing", "HasConflicts"} THEN Head(statuses)
    ELSE FirstBusyStatus(Tail(statuses))

computeStatusFirstBusy(store, statuses) ==
    IF ~store THEN "Uninitialized" ELSE FirstBusyStatus(statuses)

\* UserDataSyncService.computeStatus (lines 672-683)
computeStatus(store, statuses) ==
    IF ~store THEN "Uninitialized"
    ELSE IF SomeStatus(statuses, "HasConflicts") THEN "HasConflicts"
    ELSE IF SomeStatus(statuses, "Syncing") THEN "Syncing"
    ELSE "Idle"

\* The permutations of 1..NumSynchronisers
Perms == {p \in [SyncIdx -> SyncIdx] : \A i, j \in SyncIdx : i # j => p[i] # p[j]}

Permuted(statuses, p) == [i \in SyncIdx |-> statuses[p[i]]]


(***************************************************************************)
(* Bounds of the model.                                                     *)
(***************************************************************************)
\* run() calls that start a sync pass, under Spec
MaxPasses == 2

\* run() calls that start a sync pass, under SpecErrors
MaxErrorPasses == 1

\* errors thrown by synchronisers over one behaviour
MaxThrows == 2

\* readings of the clock by updateLastSyncTime(), plus one
MaxClock == 3

PassIds == 1..(IF MaxPasses > MaxErrorPasses THEN MaxPasses ELSE MaxErrorPasses)

\* A number | undefined field: <<>> when undefined, <<t>> when it holds t
Undefined == <<>>

Stamp(t) == <<t>>

(***************************************************************************)
(* Errors a synchroniser may throw: a plain Error, or a UserDataSyncError   *)
(* with a code and the resource it was created with.                        *)
(***************************************************************************)
AbortCodes == {"TooManyRequests", "LocalTooManyRequests", "Gone", "UpgradeRequired", "Incompatible"}

PlainError == [kind |-> "Error", code |-> "none", resource |-> "none"]

\* How a call ended when it threw nothing, and a call not yet settled
Resolved == [kind |-> "resolved", code |-> "none", resource |-> "none"]

Pending == [kind |-> "pending", code |-> "none", resource |-> "none"]

\* handleSynchronizerError returned after logging
Logged == [kind |-> "logged", code |-> "none", resource |-> "none"]

UserDataSyncError(code, resource) ==
    [kind |-> "UserDataSyncError", code |-> code, resource |-> resource]

ThrownErrors ==
    {PlainError} \cup
    \* created with no resource, or with the source of the first synchroniser
    {UserDataSyncError("TooLarge", r) : r \in {"none", "settings"}} \cup
    {UserDataSyncError(c, "none") : c \in AbortCodes \cup {"Unauthorized"}}

\* UserDataSyncError.toUserDataSyncError: a UserDataSyncError as it is, any
\* other error wrapped with the code Unknown
toUserDataSyncError(e) ==
    IF e.kind = "UserDataSyncError" THEN e ELSE UserDataSyncError("Unknown", "none")

\* A slip: every UserDataSyncError is thrown on, whatever its code
handleSynchronizerErrorAnyCode(e, source) ==
    IF e.kind = "UserDataSyncError" /\ e.code = "TooLarge"
        THEN UserDataSyncError(e.code, source)
    ELSE IF e.kind = "UserDataSyncError"
        THEN e
    ELSE Logged

\* A slip: the case for Gone is missing from the switch
handleSynchronizerErrorNoGone(e, source) ==
    IF e.kind = "UserDataSyncError" /\ e.code = "TooLarge"
        THEN UserDataSyncError(e.code, source)
    ELSE IF e.kind = "UserDataSyncError" /\ e.code \in AbortCodes \ {"Gone"}
        THEN e
    ELSE Logged

\* A slip: the TooLarge error is thrown on as it came
handleSynchronizerErrorSameError(e, source) ==
    IF e.kind = "UserDataSyncError" /\ e.code \in {"TooLarge"} \cup AbortCodes
        THEN e
    ELSE Logged

(***************************************************************************)
(* handleSynchronizerError(e, source) (lines 693-709): the error it throws, *)
(* or Logged when it returns after logging.                                 *)
(***************************************************************************)
handleSynchronizerError(e, source) ==
    IF e.kind = "UserDataSyncError" /\ e.code = "TooLarge"
        THEN UserDataSyncError(e.code, source)
    ELSE IF e.kind = "UserDataSyncError" /\ e.code \in AbortCodes
        THEN e
    ELSE Logged

\* computeConflicts (lines 711-714): the synchronisers in HasConflicts, in order
RECURSIVE computeConflictsFrom(_, _)
computeConflictsFrom(statuses, i) ==
    IF i > Len(statuses) THEN <<>>
    ELSE IF statuses[i] = "HasConflicts"
        THEN <<synchronisers[i]>> \o computeConflictsFrom(statuses, i + 1)
    ELSE computeConflictsFrom(statuses, i + 1)

computeConflicts(statuses) == computeConflictsFrom(statuses, 1)

(***************************************************************************)
(* The service's fields that setStatus, updateStatus and                    *)
(* updateLastSyncTime read and write, as one record, so that a handler that *)
(* calls several of them in a row is one step.                              *)
(***************************************************************************)
Service ==
    [status |-> status, conflicts |-> conflicts, lastSyncTime |-> lastSyncTime,
     storage |-> storage, clock |-> clock]

\* updateLastSyncTime (lines 685-691)
updateLastSyncTime(o) ==
    IF o.status = "Idle"
        THEN [o EXCEPT !.lastSyncTime = Stamp(o.clock), !.storage = Stamp(o.clock),
                       !.clock = o.clock + 1]
    ELSE o

\* setStatus (lines 647-656)
setStatus(o, s) ==
    IF o.status # s
        THEN LET o1 == [o EXCEPT !.status = s]
             IN IF o.status = "HasConflicts" THEN updateLastSyncTime(o1) ELSE o1
    ELSE o

\* updateConflicts (lines 664-670)
updateConflicts(o, statuses) ==
    IF o.conflicts # computeConflicts(statuses)
        THEN [o EXCEPT !.conflicts = computeConflicts(statuses)]
    ELSE o

\* A variant: only the conflicts are recomputed
updateStatusConflictsOnly(o, statuses) == updateConflicts(o, statuses)

\* updateStatus (lines 658-662)
updateStatus(o, statuses) ==
    setStatus(updateConflicts(o, statuses), computeStatus(storeConfigured, statuses))

\* The record's fields written back
Commit(o) ==
    /\ o.clock <= MaxClock
    /\ status' = o.status
    /\ conflicts' = o.conflicts
    /\ lastSyncTime' = o.lastSyncTime
    /\ storage' = o.storage
    /\ clock' = o.clock

(***************************************************************************)
(* One sync(manifest, executionId, token) call (lines 455-501).             *)
(*   pc         "none" (not started), "recover" (awaiting recoverSettings), *)
(*              "sync" (awaiting synchroniser idx's sync), "done"           *)
(*   cancelled  token.isCancellationRequested                               *)
(*   result     Pending, Resolved, or the error sync() rejected with        *)
(*   invoked    the synchronisers whose sync was called, in call order      *)
(*   thrown     what those calls threw: <<synchroniser, error>>, in order   *)
(*   published  the lists fired through onSyncErrors, in order              *)
(*   entered    the pass got past the first cancellation check              *)
(*   overlapped another pass was in flight while this one was               *)
(***************************************************************************)
NoPass ==
    [pc |-> "none", idx |-> 0, cancelled |-> FALSE, result |-> Pending,
     invoked |-> <<>>, thrown |-> <<>>, published |-> <<>>, entered |-> FALSE,
     overlapped |-> FALSE]

\* What a block of sync() between two awaits reads and writes
Frame(p) == [o |-> Service, errs |-> syncErrors, pass |-> pass[p]]

\* A variant: the finally block fires the errors and leaves the status alone
FinallyWithoutUpdateStatus(f, result) ==
    [f EXCEPT !.pass.published = Append(f.pass.published, f.errs),
              !.pass.pc = "done",
              !.pass.result = result]

\* The finally block (lines 497-500), and the settlement of sync()
Finally(f, result) ==
    [f EXCEPT !.o = updateStatus(f.o, sStatus),
              !.pass.published = Append(f.pass.published, f.errs),
              !.pass.pc = "done",
              !.pass.result = result]

\* A variant: the loop does not look at the token
LoopFromIgnoringToken(f, i) ==
    IF i > NumSynchronisers
        THEN Finally([f EXCEPT !.o = updateLastSyncTime(f.o)], Resolved)
    ELSE [f EXCEPT !.pass.pc = "sync", !.pass.idx = i,
                   !.pass.invoked = Append(f.pass.invoked, i)]

\* The for loop from synchroniser i on (lines 476-491), up to the next await
LoopFrom(f, i) ==
    IF i > NumSynchronisers
        THEN Finally([f EXCEPT !.o = updateLastSyncTime(f.o)], Resolved)
    ELSE IF f.pass.cancelled
        THEN Finally(f, Resolved)
    ELSE [f EXCEPT !.pass.pc = "sync", !.pass.idx = i,
                   !.pass.invoked = Append(f.pass.invoked, i)]

\* A variant: the token is first looked at inside the loop
SyncBodyLateCheck(f) ==
    LET f1 == [f EXCEPT !.errs = <<>>, !.pass.entered = TRUE]
        f2 == IF f1.o.status # "HasConflicts"
                  THEN [f1 EXCEPT !.o = setStatus(f1.o, "Syncing")]
              ELSE f1
    IN LoopFrom(f2, 1)

\* Lines 461-475: after the recovery step, up to the first await of the loop
SyncBody(f) ==
    IF f.pass.cancelled
        THEN [f EXCEPT !.pass.pc = "done", !.pass.result = Resolved]
    ELSE LET f1 == [f EXCEPT !.errs = <<>>, !.pass.entered = TRUE]
             f2 == IF f1.o.status # "HasConflicts"
                       THEN [f1 EXCEPT !.o = setStatus(f1.o, "Syncing")]
                   ELSE f1
         IN LoopFrom(f2, 1)

\* Lines 456-459: sync() from its entry
SyncEnter(f) ==
    IF ~recoveredSettings THEN [f EXCEPT !.pass.pc = "recover"] ELSE SyncBody(f)

Running(p) == pass[p].pc \in {"recover", "sync"}

\* The frame written back. The promise returned by run() ends with
\* finally(() => cancellablePromise = undefined) (line 425): it runs when the
\* pass settles, unless stop() cancelled the promise before. cp is the
\* closure's cancellablePromise before that.
CommitFrame(p, f, cp, others) ==
    /\ Commit(f.o)
    /\ syncErrors' = f.errs
    /\ pass' = [others EXCEPT ![p] = f.pass]
    /\ cancellablePromise' = IF f.pass.pc = "done" /\ ~f.pass.cancelled THEN 0 ELSE cp

Started == {p \in PassIds : pass[p].pc # "none"}

RECURSIVE ThrowsUpTo(_)
ThrowsUpTo(n) == IF n = 0 THEN 0 ELSE Len(pass[n].thrown) + ThrowsUpTo(n - 1)

\* The errors thrown so far
Throws == ThrowsUpTo(Cardinality(PassIds))

\* checkEnablement (lines 720-724)
checkEnablement == storeConfigured

\* createSyncTask (lines 401-434), the manifest fetched
CreateSyncTask ==
    /\ ~taskCreated
    /\ IF checkEnablement
          THEN taskCreated' = TRUE /\ lastError' = "none"
       ELSE taskCreated' = FALSE /\ lastError' = "Not enabled"
    /\ UNCHANGED <<storeConfigured, sStatus, status, conflicts, lastSyncTime, storage, clock,
                   recoveredSettings, syncErrors, executed, cancellablePromise, pass, stopAt>>
    /\ UNCHANGED <<statusVars, manualVars, apiVars>>

\* What run() does once its guard is passed (lines 424-425)
RunStart ==
    \E p \in PassIds :
        /\ p = Cardinality(Started) + 1
        /\ LET overlap == \E q \in PassIds : Running(q)
               others == [q \in PassIds |->
                            IF Running(q) THEN [pass[q] EXCEPT !.overlapped = TRUE]
                            ELSE pass[q]]
               f == [Frame(p) EXCEPT !.pass.overlapped = overlap]
           IN CommitFrame(p, SyncEnter(f), p, others)
        /\ lastError' = "none"

\* The task's run() (lines 420-426), while fewer than maxPasses passes started
TaskRun(maxPasses) ==
    /\ taskCreated
    /\ Cardinality(Started) < maxPasses
    /\ IF executed
          THEN /\ lastError' = "Can run a task only once"
               /\ UNCHANGED <<status, conflicts, lastSyncTime, storage, clock, syncErrors,
                              cancellablePromise, pass>>
       ELSE RunStart
    /\ UNCHANGED <<storeConfigured, sStatus, recoveredSettings, taskCreated, executed, stopAt>>
    /\ UNCHANGED <<statusVars, manualVars, apiVars>>

\* settingsSynchroniser.recoverSettings() returns (lines 457-458)
RecoverReturn(p) ==
    /\ pass[p].pc = "recover"
    /\ recoveredSettings' = TRUE
    /\ CommitFrame(p, SyncBody(Frame(p)), cancellablePromise, pass)
    /\ UNCHANGED <<storeConfigured, sStatus, taskCreated, executed, stopAt, lastError>>
    /\ UNCHANGED <<statusVars, manualVars, apiVars>>

\* settingsSynchroniser.recoverSettings() throws: sync() rejects at line 457
RecoverThrow(p) ==
    /\ pass[p].pc = "recover"
    /\ Throws < MaxThrows
    /\ LET f == Frame(p)
       IN CommitFrame(p, [f EXCEPT !.pass.pc = "done", !.pass.result = PlainError,
                                   !.pass.thrown = Append(f.pass.thrown, <<0, PlainError>>)],
                      cancellablePromise, pass)
    /\ UNCHANGED <<storeConfigured, sStatus, recoveredSettings, taskCreated, executed,
                   stopAt, lastError>>
    /\ UNCHANGED <<statusVars, manualVars, apiVars>>

\* A synchroniser whose sync() is awaited by a pass
InSync(i) == \E p \in PassIds : pass[p].pc = "sync" /\ pass[p].idx = i

\* A synchroniser's sync() settles, by returning or by throwing, with the
\* synchroniser no longer Syncing
SyncSettles(p) == pass[p].pc = "sync" /\ sStatus[pass[p].idx] # "Syncing"

\* The awaited synchroniser.sync() returns (line 483)
SyncReturn(p) ==
    /\ SyncSettles(p)
    /\ CommitFrame(p, LoopFrom(Frame(p), pass[p].idx + 1), cancellablePromise, pass)
    /\ UNCHANGED <<storeConfigured, sStatus, recoveredSettings, taskCreated, executed,
                   stopAt, lastError>>
    /\ UNCHANGED <<statusVars, manualVars, apiVars>>

\* The catch block of the loop (lines 484-487) for error e of synchroniser i:
\* handleSynchronizerError throws out of the loop, or the error is recorded
AfterThrow(f, i, e) ==
    LET f1 == [f EXCEPT !.pass.thrown = Append(f.pass.thrown, <<i, e>>)]
        h == handleSynchronizerError(e, synchronisers[i])
    IN IF h = Logged
           THEN LoopFrom([f1 EXCEPT !.errs =
                             Append(f1.errs, <<synchronisers[i], toUserDataSyncError(e)>>)],
                         i + 1)
       ELSE Finally(f1, h)

\* The awaited synchroniser.sync() throws e
SyncThrow(p) ==
    /\ SyncSettles(p)
    /\ Throws < MaxThrows
    /\ \E e \in ThrownErrors :
           CommitFrame(p, AfterThrow(Frame(p), pass[p].idx, e), cancellablePromise, pass)
    /\ UNCHANGED <<storeConfigured, sStatus, recoveredSettings, taskCreated, executed,
                   stopAt, lastError>>
    /\ UNCHANGED <<statusVars, manualVars, apiVars>>

\* A variant: the next synchroniser whatever its status
NextToStopAny(statuses, i) == IF i > NumSynchronisers THEN 0 ELSE i

\* The first synchroniser from i on that is not Idle, or 0 (lines 508-516)
RECURSIVE NextToStop(_, _)
NextToStop(statuses, i) ==
    IF i > NumSynchronisers THEN 0
    ELSE IF statuses[i] # "Idle" THEN i
    ELSE NextToStop(statuses, i + 1)

\* The orchestrator's stop() (lines 503-518), up to its first await
stop(o, statuses) == IF o.status = "Idle" THEN 0 ELSE NextToStop(statuses, 1)

\* The task's stop() (lines 427-432): cancel() requests cancellation on the
\* token of the run and rejects the promise run() returned, whose finally
\* callback clears cancellablePromise
TaskStop ==
    /\ taskCreated
    /\ stopAt = 0
    /\ IF cancellablePromise # 0
          THEN /\ pass' = [pass EXCEPT ![cancellablePromise].cancelled = TRUE]
               /\ cancellablePromise' = 0
               /\ stopAt' = stop(Service, sStatus)
       ELSE UNCHANGED <<pass, cancellablePromise, stopAt>>
    /\ lastError' = "none"
    /\ UNCHANGED <<storeConfigured, sStatus, status, conflicts, lastSyncTime, storage, clock,
                   recoveredSettings, syncErrors, taskCreated, executed>>
    /\ UNCHANGED <<statusVars, manualVars, apiVars>>

\* A synchroniser changes its status to s and fires onDidChangeStatus; the
\* constructor subscribed updateStatus() when the store is configured
\* (lines 353-356)
SetSynchroniserStatus(i, s) ==
    /\ sStatus' = [sStatus EXCEPT ![i] = s]
    /\ IF storeConfigured /\ sStatus[i] # s
          THEN Commit(updateStatus(Service, sStatus'))
       ELSE UNCHANGED <<status, conflicts, lastSyncTime, storage, clock>>

\* The awaited synchroniser.stop() returns (line 511): the synchroniser is Idle
StopReturn ==
    /\ stopAt # 0
    /\ SetSynchroniserStatus(stopAt, "Idle")
    /\ stopAt' = NextToStop(sStatus', stopAt + 1)
    /\ UNCHANGED <<storeConfigured, recoveredSettings, syncErrors, taskCreated, executed,
                   cancellablePromise, pass, lastError>>
    /\ UNCHANGED <<statusVars, manualVars, apiVars>>

\* The awaited synchroniser.stop() throws (lines 513-515): logged
StopThrow ==
    /\ stopAt # 0
    /\ stopAt' = NextToStop(sStatus, stopAt + 1)
    /\ UNCHANGED <<storeConfigured, sStatus, status, conflicts, lastSyncTime, storage, clock,
                   recoveredSettings, syncErrors, taskCreated, executed,
                   cancellablePromise, pass, lastError>>
    /\ UNCHANGED <<statusVars, manualVars, apiVars>>

\* A synchroniser changes its own status: while its sync() runs, to any
\* status; at any time, from HasConflicts to Idle (its conflicts were resolved)
SynchroniserStatusChange ==
    /\ \E i \in SyncIdx, s \in {"Idle", "Syncing", "HasConflicts"} :
           /\ sStatus[i] # s
           /\ InSync(i) \/ (sStatus[i] = "HasConflicts" /\ s = "Idle")
           /\ SetSynchroniserStatus(i, s)
    /\ UNCHANGED <<storeConfigured, recoveredSettings, syncErrors, taskCreated, executed,
                   cancellablePromise, pass, stopAt, lastError>>
    /\ UNCHANGED <<statusVars, manualVars, apiVars>>

(***************************************************************************)
(* ManualSyncTask (lines 728-855).  The task holds previewsPromise and      *)
(* previews; previews refers to an array that the task shares with the     *)
(* promise that produced it, so arrays are kept by number.  Every await of *)
(* a synchroniser call is a point where other calls on the task may run.   *)
(***************************************************************************)
MaxManualSynchronisers == 2

MaxSubPreviews == 2

MaxFetches == 2

MaxOps == 1

MaxPreviewCalls == 2

\* The calls that may be made on the task while an accept() is suspended
MaxOverlap == 1

\* this.synchronisers of the task (line 735), cut to the bound
manualSynchronisers == SubSeq(synchronisers, 1, MaxManualSynchronisers)

FetchIds == 1..MaxFetches

OpIds == 1..(MaxPreviewCalls + MaxOps + MaxOverlap)


\* URI: every resource of every sub-preview is a URI of its own
Uri(r, k, slot) == [res |-> r, sub |-> k, slot |-> slot]

\* A URI that no sub-preview holds
ForeignUri == Uri("none", 0, "local")

isEqual(a, b) == a = b

\* IResourcePreview of sub-preview k of resource r
ResourcePreview(r, k, c) ==
    [localResource |-> Uri(r, k, "local"),
     previewResource |-> Uri(r, k, "preview"),
     remoteResource |-> Uri(r, k, "remote"),
     hasConflicts |-> c]

\* hasConflicts of the sub-previews of one ISyncResourcePreview
ConflictFlags == UNION {[1..n -> BOOLEAN] : n \in 1..MaxSubPreviews}

\* ISyncResourcePreview as a synchroniser returns it
SynchroniserPreview(r, flags) ==
    [resourcePreviews |-> [k \in 1..Len(flags) |-> ResourcePreview(r, k, flags[k])]]

\* null, or the value: <<>> and <<v>>
Null == <<>>

Some(v) == <<v>>

\* What preview() and acceptPreviewContent() of the synchroniser of r return
PreviewResults(r) == {Null} \cup {Some(SynchroniserPreview(r, f)) : f \in ConflictFlags}

\* What resolveContent() of a synchroniser returns
ContentResults == {Null, Some(""), Some("text")}

\* content || ''
OrEmpty(c) == IF c = Null \/ c[1] = "" THEN "" ELSE c[1]

\* Errors a synchroniser call rejects with
ManualErrors == {"Canceled", "Error"}

isPromiseCanceledError(e) == e = "Canceled"

toStrictResourcePreview(rp) ==
    [localResource |-> rp.localResource,
     previewResource |-> rp.previewResource,
     remoteResource |-> rp.remoteResource,
     hasConflicts |-> rp.hasConflicts]

toSyncResourcePreview(syncResource, preview) ==
    <<syncResource,
      [resourcePreviews |-> [k \in DOMAIN preview.resourcePreviews |->
                                toStrictResourcePreview(preview.resourcePreviews[k])]]>>

\* resourcePreviews.some(...) of accept(), line 751-752
Owns(entry, resource) ==
    \E k \in DOMAIN entry[2].resourcePreviews :
        LET rp == entry[2].resourcePreviews[k]
        IN  \/ isEqual(resource, rp.localResource)
            \/ isEqual(resource, rp.previewResource)
            \/ isEqual(resource, rp.remoteResource)

\* Array.prototype.findIndex from position i; 0 stands for -1
RECURSIVE findIndexFrom(_, _, _)
findIndexFrom(list, resource, i) ==
    IF i > Len(list) THEN 0
    ELSE IF Owns(list[i], resource) THEN i
    ELSE findIndexFrom(list, resource, i + 1)

findIndex(list, resource) == findIndexFrom(list, resource, 1)

\* force of accept(), line 756, with the local and the preview resource too
acceptForceLocalOrPreview(entry, resource) ==
    \E k \in DOMAIN entry[2].resourcePreviews :
        LET rp == entry[2].resourcePreviews[k]
        IN  \/ isEqual(resource, rp.localResource)
            \/ isEqual(resource, rp.previewResource)

\* force of accept(), line 756
acceptForce(entry, resource) ==
    \E k \in DOMAIN entry[2].resourcePreviews :
        LET rp == entry[2].resourcePreviews[k]
        IN  \/ isEqual(resource, rp.localResource)
            \/ isEqual(resource, rp.remoteResource)

\* A variant: the entry is removed and the items are pushed at the end
spliceThenPush(list, index, items) ==
    SubSeq(list, 1, index - 1) \o SubSeq(list, index + 1, Len(list)) \o items

\* list.splice(index, 1, ...items): index is 1-based, clamped to the length
splice(list, index, items) ==
    IF index > Len(list) THEN list \o items
    ELSE SubSeq(list, 1, index - 1) \o items \o SubSeq(list, index + 1, Len(list))

\* The index of the synchroniser of a resource, this.synchronisers.find
RECURSIVE synchroniserFrom(_, _)
synchroniserFrom(r, i) ==
    IF i > MaxManualSynchronisers THEN 0
    ELSE IF manualSynchronisers[i] = r THEN i
    ELSE synchroniserFrom(r, i + 1)

\* One call of a synchroniser, as the task made it
Call(fn, r, uri, content, force) ==
    [fn |-> fn, res |-> r, uri |-> uri, content |-> content, force |-> force]

\* A getPreviews() call that has not been made
\* made: called is the synchronisers whose preview() was called and returned
\* what their calls returned, both in call order
NoFetch ==
    [pc |-> "none", idx |-> 0, cancelled |-> FALSE, settled |-> "pending", called |-> <<>>,
     returned |-> <<>>]

\* A variant: the entry of a preview is put in front of the result
pushPreviewInFront(result, r, preview) ==
    IF preview = Null THEN result
    ELSE <<toSyncResourcePreview(r, preview[1])>> \o result

\* Lines 838-840 of getPreviews(): if (preview) { result.push(...) }
pushPreview(result, r, preview) ==
    IF preview = Null THEN result
    ELSE Append(result, toSyncResourcePreview(r, preview[1]))

\* The calls on the task that have resolved
ResolvedCalls == {q \in DOMAIN ops : ops[q].outcome = "resolved"}

\* this.previews is an array with entries, or an empty one too
HasSomePreviews == previews # 0 /\ arrays[previews] # <<>>

\* this.previews is an array: the test of lines 748, 764, 787 and 801
HasPreviews == previews # 0

\* A call on the task, at its entry: after is the calls that had resolved by
\* then, list is the pending list as the call found it and, for preview(),
\* the list as the call returned it
NewOp(kind) ==
    [kind |-> kind, pc |-> "done", outcome |-> "pending",
     after |-> ResolvedCalls, list |-> IF previews = 0 THEN <<>> ELSE arrays[previews],
     resource |-> ForeignUri, content |-> "",
     arr |-> 0, i |-> 0, j |-> 0, cur |-> Null, index |-> 0, force |-> FALSE,
     res |-> "none", newPreview |-> Null, local |-> <<>>, calls |-> <<>>, ret |-> 0]

\* The call returns where the code throws
NotReadyIgnored(kind) == [NewOp(kind) EXCEPT !.outcome = "resolved"]

\* throw new Error('You need to create preview before applying')
NotReady(kind) == [NewOp(kind) EXCEPT !.outcome = "notReady"]

\* The array a call creates
OwnArray(o) == MaxFetches + o

\* A variant: pull() and push() take the other side's resource
TargetOtherSide(kind, rp) ==
    CASE kind = "merge" -> rp.previewResource
      [] kind = "pull" -> rp.localResource
      [] OTHER -> rp.remoteResource

\* The resource merge(), pull() and push() resolve and accept (lines 774, 793, 807)
Target(kind, rp) ==
    CASE kind = "merge" -> rp.previewResource
      [] kind = "pull" -> rp.remoteResource
      [] OTHER -> rp.localResource

\* force of merge(), pull() and push() (lines 775, 794, 808)
Force(kind) == kind # "merge"

\* The loops of merge(), pull() and push() up to their next await, or to their end
RECURSIVE Advance(_, _)
Advance(op, arrs) ==
    IF op.cur # Null /\ op.j <= Len(op.cur[1][2].resourcePreviews)
    THEN LET rp == op.cur[1][2].resourcePreviews[op.j]
         IN  IF op.kind = "merge" /\ rp.hasConflicts
             THEN Advance([op EXCEPT !.j = @ + 1], arrs)
             ELSE [op EXCEPT !.pc = "resolveContent",
                             !.res = op.cur[1][1],
                             !.calls = Append(@, Call("resolveContent", op.cur[1][1],
                                                      Target(op.kind, rp), "", FALSE))]
    ELSE LET kept == IF op.kind = "merge" /\ op.cur # Null /\ op.newPreview # Null
                     THEN [op EXCEPT !.local = Append(@, toSyncResourcePreview(op.cur[1][1],
                                                                             op.newPreview[1]))]
                     ELSE op
         IN  IF op.i <= Len(arrs[op.arr])
             THEN Advance([kept EXCEPT !.cur = Some(arrs[op.arr][op.i]), !.i = @ + 1,
                                       !.j = 1, !.newPreview = Null], arrs)
             ELSE [kept EXCEPT !.cur = Null, !.pc = "finish"]

\* A call is appended to ops
Begin(op) == ops' = Append(ops, op)

\* The end of merge(), pull() and push(): this.previews = previews, this.previews = []
Finish(o, op) ==
    /\ arrays' = [arrays EXCEPT ![OwnArray(o)] = op.local]
    /\ previews' = OwnArray(o)
    /\ ops' = IF o > Len(ops)
              THEN Append(ops, [op EXCEPT !.pc = "done", !.outcome = "resolved",
                                          !.ret = IF op.kind = "merge" THEN OwnArray(o) ELSE 0])
              ELSE [ops EXCEPT ![o] = [op EXCEPT !.pc = "done", !.outcome = "resolved",
                                          !.ret = IF op.kind = "merge" THEN OwnArray(o) ELSE 0]]

\* A loop of merge(), pull() or push() goes on from op
Continue(o, op) ==
    LET next == Advance(op, arrays)
    IN  IF next.pc = "finish"
        THEN Finish(o, next)
        ELSE /\ ops' = IF o > Len(ops) THEN Append(ops, next) ELSE [ops EXCEPT ![o] = next]
             /\ UNCHANGED <<previews, arrays>>

\* The preview() calls that await getPreviews() call f settle; list is the
\* array the promise resolves to
Settle(f, outcome, list) ==
    [q \in DOMAIN ops |->
        IF ops[q].pc = "await" /\ ops[q].arr = f
        THEN [ops[q] EXCEPT !.pc = "done", !.outcome = outcome, !.list = list,
                            !.ret = IF outcome = "resolved" THEN f ELSE 0]
        ELSE ops[q]]

\* The preview() calls and the other calls made on the task
PreviewCalls == Cardinality({q \in DOMAIN ops : ops[q].kind = "preview"})

OtherCalls == Cardinality({q \in DOMAIN ops : ops[q].kind # "preview"})

\* The number of getPreviews() calls made
Fetched == Cardinality({f \in FetchIds : fetches[f].pc # "none"})

(***************************************************************************)
(* preview(), lines 739-745, and getPreviews(), lines 831-843.             *)
(***************************************************************************)
\* A variant: a promise is reused only once it has resolved
NoResolvedPreviewsPromise ==
    previewsPromise = 0 \/ fetches[previewsPromise].settled # "resolved"

\* !this.previewsPromise, the test of line 740
NoPreviewsPromise == previewsPromise = 0

PreviewCall ==
    /\ IF NoPreviewsPromise
       THEN /\ Fetched < MaxFetches
            /\ LET f == Fetched + 1
               IN  /\ fetches' = [fetches EXCEPT ![f] =
                                     [NoFetch EXCEPT !.pc = "preview", !.idx = 1,
                                                     !.called = <<manualSynchronisers[1]>>]]
                   /\ previewsPromise' = f
                   /\ Begin([NewOp("preview") EXCEPT !.pc = "await", !.arr = f])
            /\ UNCHANGED <<previews, arrays>>
       ELSE LET f == previewsPromise
            IN  /\ CASE fetches[f].settled = "resolved" ->
                            /\ previews' = f
                            /\ Begin([NewOp("preview") EXCEPT !.outcome = "resolved",
                                                               !.arr = f, !.ret = f,
                                                               !.list = arrays[f]])
                     [] fetches[f].settled = "pending" ->
                            /\ Begin([NewOp("preview") EXCEPT !.pc = "await", !.arr = f])
                            /\ UNCHANGED previews
                     [] OTHER ->
                            /\ Begin([NewOp("preview") EXCEPT !.outcome = "error", !.arr = f])
                            /\ UNCHANGED previews
                /\ UNCHANGED <<previewsPromise, arrays, fetches>>
    /\ UNCHANGED <<statusVars, syncVars, apiVars>>

ManualPreview ==
    /\ PreviewCalls < MaxPreviewCalls
    /\ PreviewCall

\* synchroniser.preview() of getPreviews() call f returns
FetchReturn(f) ==
    /\ fetches[f].pc = "preview"
    /\ LET ft == fetches[f]
           r == manualSynchronisers[ft.idx]
       IN  \E result \in PreviewResults(r) :
            /\ arrays' = [arrays EXCEPT ![f] = pushPreview(@, r, result)]
            /\ IF ft.idx = MaxManualSynchronisers
               THEN IF ft.settled = "pending"
                    THEN /\ fetches' = [fetches EXCEPT ![f] =
                                           [ft EXCEPT !.pc = "done", !.settled = "resolved",
                                                      !.returned = Append(@, result)]]
                         /\ previews' = f
                         /\ ops' = Settle(f, "resolved", arrays'[f])
                    ELSE /\ fetches' = [fetches EXCEPT ![f] =
                                           [ft EXCEPT !.pc = "done",
                                                      !.returned = Append(@, result)]]
                         /\ UNCHANGED <<previews, ops>>
               ELSE /\ fetches' = [fetches EXCEPT ![f] =
                          IF ft.cancelled
                          THEN [ft EXCEPT !.pc = "done", !.returned = Append(@, result)]
                          ELSE [ft EXCEPT !.idx = @ + 1,
                                          !.called = Append(@, manualSynchronisers[ft.idx + 1]),
                                          !.returned = Append(@, result)]]
                    /\ UNCHANGED <<previews, ops>>
    /\ UNCHANGED previewsPromise
    /\ UNCHANGED <<statusVars, syncVars, apiVars>>

\* synchroniser.preview() of getPreviews() call f throws
FetchThrow(f) ==
    /\ fetches[f].pc = "preview"
    /\ LET ft == fetches[f]
       IN  IF ft.settled = "pending"
           THEN /\ fetches' = [fetches EXCEPT ![f] =
                                  [ft EXCEPT !.pc = "done", !.settled = "rejected"]]
                /\ ops' = Settle(f, "error", <<>>)
           ELSE /\ fetches' = [fetches EXCEPT ![f] = [ft EXCEPT !.pc = "done"]]
                /\ UNCHANGED ops
    /\ UNCHANGED <<previewsPromise, previews, arrays>>
    /\ UNCHANGED <<statusVars, syncVars, apiVars>>

\* The resources a caller may pass to accept()
AcceptResources ==
    {Uri(manualSynchronisers[i], k, slot) :
        i \in 1..MaxManualSynchronisers, k \in 1..MaxSubPreviews, slot \in {"local", "preview", "remote"}}
    \cup {ForeignUri}

(***************************************************************************)
(* accept(), lines 747-761.                                                 *)
(***************************************************************************)
AcceptCall ==
    /\ \E resource \in AcceptResources :
        IF ~HasPreviews
        THEN Begin([NotReady("accept") EXCEPT !.resource = resource])
        ELSE LET list == arrays[previews]
                 index == findIndex(list, resource)
                 op == [NewOp("accept") EXCEPT !.resource = resource, !.content = "text",
                                               !.index = index]
             IN  IF index = 0
                 THEN Begin([op EXCEPT !.outcome = "resolved", !.ret = previews])
                 ELSE LET r == list[index][1]
                          force == acceptForce(list[index], resource)
                      IN  Begin([op EXCEPT !.pc = "acceptPreviewContent", !.res = r,
                                           !.force = force,
                                           !.calls = <<Call("acceptPreviewContent", r, resource,
                                                            "text", force)>>])
    /\ UNCHANGED <<previewsPromise, previews, arrays, fetches>>
    /\ UNCHANGED <<statusVars, syncVars, apiVars>>

ManualAccept ==
    /\ OtherCalls < MaxOps
    /\ AcceptCall

(***************************************************************************)
(* merge(), pull() and push(), lines 763-812.                               *)
(***************************************************************************)
ManualLoop(kind) ==
    /\ IF ~HasPreviews
       THEN /\ Begin(NotReady(kind))
            /\ UNCHANGED <<previews, arrays>>
       ELSE Continue(Len(ops) + 1, [NewOp(kind) EXCEPT !.arr = previews, !.i = 1])
    /\ UNCHANGED <<previewsPromise, fetches>>
    /\ UNCHANGED <<statusVars, syncVars, apiVars>>

ManualMerge ==
    /\ OtherCalls < MaxOps
    /\ ManualLoop("merge")

ManualPull ==
    /\ OtherCalls < MaxOps
    /\ ManualLoop("pull")

ManualPush ==
    /\ OtherCalls < MaxOps
    /\ ManualLoop("push")

\* A call on the task that awaits fn of a synchroniser
Awaits(o, fn) == o \in DOMAIN ops /\ ops[o].pc = fn

\* synchroniser.resolveContent() returns to merge(), pull() or push()
ResolveContentReturn(o) ==
    /\ Awaits(o, "resolveContent")
    /\ \E c \in ContentResults :
        LET op == ops[o]
            rp == op.cur[1][2].resourcePreviews[op.j]
        IN  ops' = [ops EXCEPT ![o] =
                       [op EXCEPT !.pc = "acceptPreviewContent", !.content = OrEmpty(c),
                                  !.calls = Append(@, Call("acceptPreviewContent", op.res,
                                                           Target(op.kind, rp), OrEmpty(c),
                                                           Force(op.kind)))]]
    /\ UNCHANGED <<previewsPromise, previews, arrays, fetches>>
    /\ UNCHANGED <<statusVars, syncVars, apiVars>>

\* synchroniser.acceptPreviewContent() returns to accept(), merge(), pull() or push()
AcceptPreviewContentReturn(o) ==
    /\ Awaits(o, "acceptPreviewContent")
    /\ LET op == ops[o]
       IN  \E preview \in PreviewResults(op.res) :
            IF op.kind = "accept"
            THEN IF previews = 0
                 THEN /\ ops' = [ops EXCEPT ![o] =
                                    [op EXCEPT !.pc = "done", !.outcome = "typeError"]]
                      /\ UNCHANGED <<previews, arrays>>
                 ELSE /\ arrays' = [arrays EXCEPT ![previews] =
                                       splice(@, op.index,
                                              IF preview = Null THEN <<>>
                                              ELSE <<toSyncResourcePreview(op.res, preview[1])>>)]
                      /\ ops' = [ops EXCEPT ![o] =
                                    [op EXCEPT !.pc = "done", !.outcome = "resolved",
                                               !.ret = previews]]
                      /\ UNCHANGED previews
            ELSE Continue(o, [op EXCEPT !.j = @ + 1,
                                        !.newPreview = IF op.kind = "merge" THEN preview
                                                       ELSE Null])
    /\ UNCHANGED <<previewsPromise, fetches>>
    /\ UNCHANGED <<statusVars, syncVars, apiVars>>

\* A variant: the call that rejects leaves an empty pending list
ManualThrowClears(o) ==
    /\ ops' = [ops EXCEPT ![o] = [@ EXCEPT !.pc = "done", !.outcome = "error"]]
    /\ arrays' = [arrays EXCEPT ![OwnArray(o)] = <<>>]
    /\ previews' = OwnArray(o)
    /\ UNCHANGED <<previewsPromise, fetches>>
    /\ UNCHANGED <<statusVars, syncVars, apiVars>>

\* synchroniser.resolveContent() or acceptPreviewContent() throws
ManualThrow(o) ==
    /\ ops' = [ops EXCEPT ![o] = [@ EXCEPT !.pc = "done", !.outcome = "error"]]
    /\ UNCHANGED <<previewsPromise, previews, arrays, fetches>>
    /\ UNCHANGED <<statusVars, syncVars, apiVars>>

ResolveContentThrow(o) ==
    /\ Awaits(o, "resolveContent")
    /\ ManualThrow(o)

AcceptPreviewContentThrow(o) ==
    /\ Awaits(o, "acceptPreviewContent")
    /\ ManualThrow(o)

(***************************************************************************)
(* stop(), lines 814-829.                                                   *)
(***************************************************************************)
StopCall ==
    /\ LET f == previewsPromise
           rejected == IF f # 0 /\ fetches[f].settled = "pending"
                       THEN Settle(f, "canceled", <<>>) ELSE ops
       IN  /\ fetches' = IF f = 0 THEN fetches
                         ELSE [fetches EXCEPT ![f] =
                                  [@ EXCEPT !.cancelled = TRUE,
                                            !.settled = IF @ = "pending" THEN "canceled" ELSE @]]
           /\ ops' = Append(rejected,
                            [NewOp("stop") EXCEPT !.pc = "stop", !.i = 1,
                                                  !.res = manualSynchronisers[1],
                                                  !.calls = <<Call("stop", manualSynchronisers[1],
                                                                   ForeignUri, "", FALSE)>>])
    /\ previewsPromise' = 0
    /\ previews' = 0
    /\ UNCHANGED arrays
    /\ UNCHANGED <<statusVars, syncVars, apiVars>>

\* A variant: an error that is logged ends stop() with that error
StopNextUncaught(op, log) ==
    IF log # <<>>
    THEN [op EXCEPT !.pc = "done", !.outcome = "error"]
    ELSE IF op.i = MaxManualSynchronisers
    THEN [op EXCEPT !.pc = "done", !.outcome = "resolved"]
    ELSE [op EXCEPT !.i = @ + 1, !.res = manualSynchronisers[op.i + 1],
                    !.calls = Append(@, Call("stop", manualSynchronisers[op.i + 1],
                                             ForeignUri, "", FALSE))]

ManualStop ==
    /\ OtherCalls < MaxOps
    /\ StopCall

\* The loop of stop() after synchroniser op.i: the next synchroniser, or the end
StopNext(op, log) ==
    IF op.i = MaxManualSynchronisers
    THEN [op EXCEPT !.pc = "done", !.outcome = "resolved", !.calls = @ \o log]
    ELSE [op EXCEPT !.i = @ + 1, !.res = manualSynchronisers[op.i + 1],
                    !.calls = @ \o log \o <<Call("stop", manualSynchronisers[op.i + 1],
                                                 ForeignUri, "", FALSE)>>]

\* synchroniser.stop() returns to stop()
ManualStopReturn(o) ==
    /\ Awaits(o, "stop")
    /\ ops' = [ops EXCEPT ![o] = StopNext(@, <<>>)]
    /\ UNCHANGED <<previewsPromise, previews, arrays, fetches>>
    /\ UNCHANGED <<statusVars, syncVars, apiVars>>

\* synchroniser.stop() throws: logged unless it is a cancellation error
ManualStopThrow(o) ==
    /\ Awaits(o, "stop")
    /\ \E e \in ManualErrors :
        ops' = [ops EXCEPT ![o] =
                   StopNext(@, IF isPromiseCanceledError(e) THEN <<>>
                               ELSE <<Call("logService.error", ops[o].res, ForeignUri, e, FALSE)>>)]
    /\ UNCHANGED <<previewsPromise, previews, arrays, fetches>>
    /\ UNCHANGED <<statusVars, syncVars, apiVars>>

(***************************************************************************)
(* A call made while an accept() awaits acceptPreviewContent() (line 757).  *)
(***************************************************************************)
AcceptSuspended ==
    \E q \in DOMAIN ops : ops[q].kind = "accept" /\ ops[q].pc = "acceptPreviewContent"

\* preview() as the first call on the task
FirstPreview ==
    /\ ops = <<>>
    /\ PreviewCall

OverlapAccept ==
    /\ AcceptSuspended
    /\ OtherCalls < MaxOps + MaxOverlap
    /\ AcceptCall

OverlapStop ==
    /\ AcceptSuspended
    /\ OtherCalls < MaxOps + MaxOverlap
    /\ StopCall

\* The task as createManualSyncTask() returns it
ManualInit ==
    /\ previewsPromise = 0
    /\ previews = 0
    \* a getPreviews() call's result, then one array per call
    /\ arrays = [a \in 1..(MaxFetches + MaxPreviewCalls + MaxOps + MaxOverlap) |-> <<>>]
    /\ fetches = [f \in FetchIds |-> NoFetch]
    /\ ops = <<>>

(***************************************************************************)
(* The public operations of UserDataSyncService besides the sync task      *)
(* (lines 362-399 and 520-645), called one after the other.  api is the    *)
(* call in flight or the last one that settled:                            *)
(*   op      the operation called                                          *)
(*   pc      "idle", "done", or the function whose result is awaited       *)
(*   at      the position, in the list the operation goes over, of the     *)
(*           synchroniser that is awaited                                  *)
(*   result  Pending, Resolved, or the error the operation rejected with   *)
(*   value   what the operation returned, as a string                      *)
(*   log     the calls to synchronisers, to the store client, to storage   *)
(*           and to logService.error that the operation made, in order     *)
(***************************************************************************)
MaxApiCalls == 2

LAST_SYNC_TIME_KEY == "sync.lastSyncTime"

ApiOps ==
    {"pull", "push", "createSyncTask", "createManualSyncTask", "replace",
     "acceptPreviewContent", "resolveContent", "hasLocalData", "hasPreviouslySynced",
     "isFirstTimeSyncingWithAnotherMachine", "reset", "resetLocal"}

\* The operations that do not begin with await this.checkEnablement()
UncheckedOps == {"resolveContent", "hasLocalData", "hasPreviouslySynced"}

\* new Error('Not enabled')
NotEnabled == [kind |-> "Error", code |-> "Not enabled", resource |-> "none"]

\* this.synchronisers, by index
allSynchronisers == [i \in SyncIdx |-> i]

\* A variant: the list of lines 566 and 583 is this.synchronisers
withGlobalState == allSynchronisers

\* The list of lines 566 and 583: every synchroniser but the global state one
withoutGlobalState == SelectSeq(allSynchronisers, LAMBDA i : synchronisers[i] # "globalState")

\* The synchronisers an operation goes over
ApiList(op) ==
    IF op \in {"hasLocalData", "isFirstTimeSyncingWithAnotherMachine"}
    THEN withoutGlobalState ELSE allSynchronisers

\* log is the calls the operation made, in order; outcomes is how the awaited
\* ones ended, in order: the value returned by replace(), resolveContent(),
\* hasLocalData() and hasPreviouslySynced(), and for the others only whether
\* the call returned or threw
NoApi ==
    [op |-> "none", pc |-> "idle", at |-> 0, result |-> Pending, value |-> "none",
     log |-> <<>>, outcomes |-> <<>>]

Returned(pc, v) ==
    [threw |-> FALSE,
     v |-> IF pc \in {"replace", "resolveContent", "hasLocalData", "hasPreviouslySynced"}
           THEN v ELSE "void"]

Threw == [threw |-> TRUE, v |-> "error"]

Entry(fn, target) == [fn |-> fn, target |-> target]

\* What a block of an operation between two awaits reads and writes
ApiFrame == [c |-> api, o |-> Service]

\* The operation settles
ApiDone(f, result, value) ==
    [f EXCEPT !.c.pc = "done", !.c.result = result, !.c.value = value]

ApiReject(f, e) == ApiDone(f, e, "none")

\* fn of the synchroniser at position k of the operation's list is called and awaited
ApiAwait(f, fn, k) ==
    [f EXCEPT !.c.pc = fn, !.c.at = k,
              !.c.log = Append(@, Entry(fn, synchronisers[ApiList(f.c.op)[k]]))]

\* fn of userDataSyncStoreService is called and awaited
ApiAwaitStore(f, fn) ==
    [f EXCEPT !.c.pc = fn, !.c.at = 0, !.c.log = Append(@, Entry(fn, "store"))]

\* this.logService.error(...)
ApiLog(f, target) == [f EXCEPT !.c.log = Append(@, Entry("logService.error", target))]

\* A for loop over the operation's list, from position k: the next call, or
\* what follows the loop
ApiLoop(f, fn, k, end) ==
    IF k > Len(ApiList(f.c.op)) THEN end ELSE ApiAwait(f, fn, k)

\* The synchroniser that is awaited
ApiResource(c) == synchronisers[ApiList(c.op)[c.at]]

\* pull() and push() from position k (lines 365-373 and 385-392)
ApiPullPush(f, k) ==
    ApiLoop(f, f.c.op, k, ApiDone([f EXCEPT !.o = updateLastSyncTime(f.o)], Resolved, "none"))

\* resetLocal() (lines 614-626), up to its first await
apiResetLocal(f) ==
    IF ~checkEnablement THEN ApiReject(f, NotEnabled)
    ELSE ApiLoop([f EXCEPT !.o.storage = Undefined,
                           !.c.log = Append(@, Entry("storageService.remove",
                                                     LAST_SYNC_TIME_KEY))],
                 "resetLocal", 1, ApiDone(f, Resolved, "none"))

\* resetRemote() (lines 637-645), up to its await
apiResetRemote(f) ==
    IF ~checkEnablement THEN ApiReject(f, NotEnabled) ELSE ApiAwaitStore(f, "clear")

\* An operation from its entry to its first await. owner is the position of
\* the synchroniser whose resourcePreviews hold the resource passed to
\* acceptPreviewContent(), or 0 (lines 531-532)
ApiStart(f, owner) ==
    LET op == f.c.op
    IN  IF op \notin UncheckedOps /\ ~checkEnablement THEN ApiReject(f, NotEnabled)
        ELSE CASE op \in {"pull", "push"} -> ApiPullPush(f, 1)
               [] op \in {"replace", "resolveContent", "hasLocalData", "hasPreviouslySynced"} ->
                      ApiAwait(f, op, 1)
               [] op = "resetLocal" -> apiResetLocal(f)
               [] op = "reset" -> apiResetRemote(f)
               [] op = "acceptPreviewContent" ->
                      IF owner = 0 THEN ApiDone(f, Resolved, "none")
                      ELSE ApiAwait(f, "acceptPreviewContent", owner)
               [] OTHER -> ApiAwaitStore(f, "manifest")

\* ISyncResourcePreview as generateSyncResourcePreview() returns it, with one
\* resource preview
GeneratedPreviews ==
    {Some([isLastSyncFromCurrentMachine |-> b, localChange |-> l, remoteChange |-> r]) :
        b \in BOOLEAN, l \in {"None", "Modified"}, r \in {"None", "Modified"}}

\* The test of lines 599-600
FromAnotherMachine(v) ==
    /\ v # Null
    /\ ~v[1].isLastSyncFromCurrentMachine
    /\ (v[1].localChange # "None" \/ v[1].remoteChange # "None")

\* What the awaited function may return
ApiResults(pc) ==
    CASE pc \in {"replace", "hasLocalData", "hasPreviouslySynced"} -> BOOLEAN
      [] pc = "resolveContent" -> ContentResults
      [] pc = "manifest" -> {Null, Some("manifest")}
      [] pc = "generateSyncResourcePreview" -> {Null} \cup GeneratedPreviews
      [] OTHER -> {"void"}

\* A variant: replace() goes on to the next synchroniser whatever is returned
replaceAfterReturnAll(f, v) ==
    ApiLoop(f, "replace", f.c.at + 1, ApiDone(f, Resolved, "none"))

\* replace() after a synchroniser's replace() returned v (lines 522-526)
replaceAfterReturn(f, v) ==
    IF v THEN ApiDone(f, Resolved, "none")
    ELSE ApiLoop(f, "replace", f.c.at + 1, ApiDone(f, Resolved, "none"))

\* resolveContent() after a synchroniser's resolveContent() returned v
\* (lines 540-545): if (content) is false for null and for ''
resolveContentAfterReturn(f, v) ==
    IF v # Null /\ v[1] # "" THEN ApiDone(f, Resolved, v[1])
    ELSE ApiLoop(f, "resolveContent", f.c.at + 1, ApiDone(f, Resolved, "null"))

\* The operation goes on after the awaited call returned v
ApiAfterReturn(f, v) ==
    LET op == f.c.op
        pc == f.c.pc
        k == f.c.at
    IN  CASE pc \in {"pull", "push"} -> ApiPullPush(f, k + 1)
          [] pc = "replace" -> replaceAfterReturn(f, v)
          [] pc = "resolveContent" -> resolveContentAfterReturn(f, v)
          [] pc = "hasPreviouslySynced" ->
                 IF v THEN ApiDone(f, Resolved, "true")
                 ELSE ApiLoop(f, pc, k + 1, ApiDone(f, Resolved, "false"))
          [] pc = "hasLocalData" /\ op = "hasLocalData" ->
                 IF v THEN ApiDone(f, Resolved, "true")
                 ELSE ApiLoop(f, pc, k + 1, ApiDone(f, Resolved, "false"))
          [] pc = "hasLocalData" /\ op # "hasLocalData" ->
                 IF v THEN ApiAwait(f, "generateSyncResourcePreview", 1)
                 ELSE ApiLoop(f, pc, k + 1, ApiDone(f, Resolved, "false"))
          [] pc = "generateSyncResourcePreview" ->
                 IF FromAnotherMachine(v) THEN ApiDone(f, Resolved, "true")
                 ELSE ApiLoop(f, pc, k + 1, ApiDone(f, Resolved, "false"))
          [] pc = "resetLocal" -> ApiLoop(f, pc, k + 1, ApiDone(f, Resolved, "none"))
          [] pc = "clear" -> apiResetLocal(f)
          [] pc = "manifest" /\ op = "isFirstTimeSyncingWithAnotherMachine" ->
                 IF v = Null THEN ApiDone(f, Resolved, "false")
                 ELSE ApiAwait(f, "hasLocalData", 1)
          [] pc = "manifest" /\ op # "isFirstTimeSyncingWithAnotherMachine" ->
                 ApiDone(f, Resolved, "task")
          [] OTHER -> ApiDone(f, Resolved, "none")

\* A variant: no call is in a try block, every error rejects the operation
ApiAfterThrowUncaught(f, e) == ApiReject(f, e)

\* A variant: resetRemote() lets the error of clear() through
resetRemoteAfterThrowUncaught(f, e) == ApiReject(f, e)

\* resetRemote() after clear() threw (lines 642-644), and reset() going on
\* with resetLocal() (line 611)
resetRemoteAfterThrow(f, e) == apiResetLocal(ApiLog(f, "store"))

\* The operation goes on after the awaited call threw e
ApiAfterThrow(f, e) ==
    LET pc == f.c.pc
        k == f.c.at
    IN  CASE pc \in {"pull", "push"} ->
                 LET h == handleSynchronizerError(e, ApiResource(f.c))
                 IN  IF h = Logged THEN ApiPullPush(ApiLog(f, ApiResource(f.c)), k + 1)
                     ELSE ApiReject(f, h)
          [] pc = "resetLocal" ->
                 LET f1 == ApiLog(f, ApiResource(f.c))
                 IN  ApiLoop(f1, pc, k + 1, ApiDone(f1, Resolved, "none"))
          [] pc = "clear" -> resetRemoteAfterThrow(f, e)
          [] OTHER -> ApiReject(f, e)

\* The frame written back
ApiCommit(f) ==
    /\ Commit(f.o)
    /\ api' = f.c

ApiAwaiting == api.pc \notin {"idle", "done"}

\* A public operation is called
ApiCall ==
    /\ ~ApiAwaiting
    /\ apiCalls < MaxApiCalls
    /\ apiCalls' = apiCalls + 1
    /\ \E op \in ApiOps, owner \in 0..NumSynchronisers :
        /\ op # "acceptPreviewContent" => owner = 0
        /\ ApiCommit(ApiStart([ApiFrame EXCEPT !.c = [NoApi EXCEPT !.op = op]], owner))
    /\ UNCHANGED <<storeConfigured, sStatus, recoveredSettings, syncErrors, taskCreated,
                   executed, cancellablePromise, pass, stopAt, lastError>>
    /\ UNCHANGED <<statusVars, manualVars>>

\* The awaited call returns
ApiReturn ==
    /\ ApiAwaiting
    /\ \E v \in ApiResults(api.pc) :
           ApiCommit(ApiAfterReturn([ApiFrame EXCEPT !.c.outcomes = Append(@, Returned(api.pc, v))], v))
    /\ UNCHANGED apiCalls
    /\ UNCHANGED <<storeConfigured, sStatus, recoveredSettings, syncErrors, taskCreated,
                   executed, cancellablePromise, pass, stopAt, lastError>>
    /\ UNCHANGED <<statusVars, manualVars>>

\* The awaited call throws
ApiThrow ==
    /\ ApiAwaiting
    /\ \E e \in ThrownErrors :
           ApiCommit(ApiAfterThrow([ApiFrame EXCEPT !.c.outcomes = Append(@, Threw)], e))
    /\ UNCHANGED apiCalls
    /\ UNCHANGED <<storeConfigured, sStatus, recoveredSettings, syncErrors, taskCreated,
                   executed, cancellablePromise, pass, stopAt, lastError>>
    /\ UNCHANGED <<statusVars, manualVars>>

ApiInit == api = NoApi /\ apiCalls = 0

(***************************************************************************)
(* The conflicts the synchronisers report (SpecConflicts).  A synchroniser  *)
(* changes its status or its conflicts and fires the matching event; the    *)
(* emitter calls the service's listener before fire() returns, so the       *)
(* change and the listener are one step.                                    *)
(***************************************************************************)
\* synchronisers, from the head of the list, that change status and conflicts
MaxConflictSynchronisers == 2

\* conflicting sub-previews one synchroniser reports at a time
MaxConflicts == 2

\* The conflicts of the synchroniser of r: some of its sub-previews, each once
ConflictLists(r) ==
    LET picks == UNION {[1..n -> 1..MaxConflicts] : n \in 0..MaxConflicts}
        once(p) == \A a, b \in DOMAIN p : a # b => p[a] # p[b]
    IN {[a \in DOMAIN p |-> ResourcePreview(r, p[a], TRUE)] : p \in {q \in picks : once(q)}}

\* A plausible slip: the entries are compared by their resource alone
equalsConflictsByResource(a, b) ==
    /\ Len(a) = Len(b)
    /\ \A j \in 1..Len(a) : a[j].syncResource = b[j].syncResource

\* equals(this._conflicts, conflicts, ...) of line 666: the resources, and of
\* each entry's conflicts the preview resources only
equalsConflicts(a, b) ==
    /\ Len(a) = Len(b)
    /\ \A j \in 1..Len(a) :
           /\ a[j].syncResource = b[j].syncResource
           /\ Len(a[j].conflicts) = Len(b[j].conflicts)
           /\ \A k \in 1..Len(a[j].conflicts) :
                  k <= Len(b[j].conflicts) =>
                      isEqual(a[j].conflicts[k].previewResource,
                              b[j].conflicts[k].previewResource)

\* computeConflicts (lines 711-714) with the entries in full
RECURSIVE SyncResourceConflictsFrom(_, _)
SyncResourceConflictsFrom(ss, i) ==
    IF i > Len(ss) THEN <<>>
    ELSE IF ss[i].status = "HasConflicts"
        THEN <<[syncResource |-> synchronisers[i],
                conflicts |-> [k \in 1..Len(ss[i].conflicts) |->
                                  toStrictResourcePreview(ss[i].conflicts[k])]]>>
             \o SyncResourceConflictsFrom(ss, i + 1)
    ELSE SyncResourceConflictsFrom(ss, i + 1)

SyncResourceConflicts(ss) == SyncResourceConflictsFrom(ss, 1)

\* updateConflicts (lines 664-670) with the entries in full; fired records the
\* onDidChangeConflicts notification
fireConflicts(o, ss) ==
    IF ~equalsConflicts(o.conflicts, SyncResourceConflicts(ss))
        THEN [o EXCEPT !.conflicts = SyncResourceConflicts(ss), !.fired = TRUE]
    ELSE o

\* A plausible slip: the status is recomputed and the conflicts are not
fireStatusWithoutConflicts(o, ss) ==
    setStatus(o, computeStatus(ccStore, [i \in DOMAIN ss |-> ss[i].status]))

\* updateStatus (lines 658-662) with the entries in full
fireStatus(o, ss) ==
    setStatus(fireConflicts(o, ss), computeStatus(ccStore, [i \in DOMAIN ss |-> ss[i].status]))

\* A synchroniser sets its status and fires onDidChangeStatus (line 354)
SynchroniserFiresStatus ==
    /\ \E i \in 1..MaxConflictSynchronisers, s \in {"Idle", "Syncing", "HasConflicts"} :
           /\ ccSynchronisers[i].status # s
           /\ ccSynchronisers' = [ccSynchronisers EXCEPT ![i].status = s]
    /\ IF ccStore
          THEN /\ ccService' = fireStatus([ccService EXCEPT !.fired = FALSE], ccSynchronisers')
               /\ ccLast' = "updateStatus"
       ELSE UNCHANGED <<ccService, ccLast>>
    /\ ccService'.clock <= MaxClock
    /\ UNCHANGED <<ccStore, ccPasses>>
    /\ UNCHANGED <<csStore, csStatuses, csOut, csOutPerm>>
    /\ UNCHANGED <<syncVars, manualVars, apiVars>>

\* A synchroniser sets its conflicts and fires onDidChangeConflicts (line 355)
SynchroniserFiresConflicts ==
    /\ \E i \in 1..MaxConflictSynchronisers :
         \E c \in ConflictLists(synchronisers[i]) :
           /\ ccSynchronisers[i].conflicts # c
           /\ ccSynchronisers' = [ccSynchronisers EXCEPT ![i].conflicts = c]
    /\ IF ccStore
          THEN /\ ccService' = fireConflicts([ccService EXCEPT !.fired = FALSE], ccSynchronisers')
               /\ ccLast' = "updateConflicts"
       ELSE UNCHANGED <<ccService, ccLast>>
    /\ UNCHANGED <<ccStore, ccPasses>>
    /\ UNCHANGED <<csStore, csStatuses, csOut, csOutPerm>>
    /\ UNCHANGED <<syncVars, manualVars, apiVars>>

\* sync() enters its try block (lines 468-472)
SyncSetsStatus ==
    /\ ccStore
    /\ ccPasses < MaxPasses
    /\ ccPasses' = ccPasses + 1
    /\ ccService' = IF ccService.status # "HasConflicts"
                        THEN setStatus([ccService EXCEPT !.fired = FALSE], "Syncing")
                    ELSE [ccService EXCEPT !.fired = FALSE]
    /\ ccLast' = "setStatus"
    /\ UNCHANGED <<ccStore, ccSynchronisers>>
    /\ UNCHANGED <<csStore, csStatuses, csOut, csOutPerm>>
    /\ UNCHANGED <<syncVars, manualVars, apiVars>>

\* sync() leaves its try block: after the loop (lines 490-491) or by a return
\* or a throw, and then the finally block (lines 497-500)
SyncFinally ==
    /\ ccPasses > 0
    /\ ccPasses' = ccPasses - 1
    /\ \E completed \in BOOLEAN :
           ccService' = fireStatus(IF completed
                                       THEN updateLastSyncTime([ccService EXCEPT !.fired = FALSE])
                                   ELSE [ccService EXCEPT !.fired = FALSE],
                                   ccSynchronisers)
    /\ ccService'.clock <= MaxClock
    /\ ccLast' = "updateStatus"
    /\ UNCHANGED <<ccStore, ccSynchronisers>>
    /\ UNCHANGED <<csStore, csStatuses, csOut, csOutPerm>>
    /\ UNCHANGED <<syncVars, manualVars, apiVars>>

\* No synchroniser has reported anything
ConflictsIdle ==
    /\ ccStore = FALSE
    /\ ccSynchronisers = [i \in SyncIdx |-> [status |-> "Idle", conflicts |-> <<>>]]
    /\ ccService = [status |-> "Uninitialized", conflicts |-> <<>>,
                    lastSyncTime |-> Undefined, storage |-> Undefined, clock |-> 1,
                    fired |-> FALSE]
    /\ ccPasses = 0
    /\ ccLast = "none"

(***************************************************************************)
(* Initial states and specifications.                                       *)
(***************************************************************************)
\* The state after the constructor (lines 337-360)
SyncInit ==
    /\ storeConfigured \in BOOLEAN
    /\ sStatus = [i \in SyncIdx |-> "Idle"]
    /\ status = computeStatus(storeConfigured, sStatus)
    /\ conflicts = computeConflicts(sStatus)
    /\ storage \in {Undefined, Stamp(0)}
    /\ lastSyncTime = storage
    /\ clock = 1
    /\ recoveredSettings = FALSE
    /\ syncErrors = <<>>
    /\ taskCreated = FALSE
    /\ executed = FALSE
    /\ cancellablePromise = 0
    /\ pass = [p \in PassIds |-> NoPass]
    /\ stopAt = 0
    /\ lastError = "none"

\* The orchestrator left alone
SyncIdle ==
    /\ storeConfigured = FALSE
    /\ sStatus = [i \in SyncIdx |-> "Idle"]
    /\ status = "Uninitialized"
    /\ conflicts = <<>>
    /\ storage = Undefined
    /\ lastSyncTime = Undefined
    /\ clock = 1
    /\ recoveredSettings = FALSE
    /\ syncErrors = <<>>
    /\ taskCreated = FALSE
    /\ executed = FALSE
    /\ cancellablePromise = 0
    /\ pass = [p \in PassIds |-> NoPass]
    /\ stopAt = 0
    /\ lastError = "none"

StatusIdle ==
    /\ csStore = FALSE
    /\ csStatuses = [i \in SyncIdx |-> "Idle"]
    /\ csOut = "none"
    /\ csOutPerm = "none"
    /\ ConflictsIdle

Init == SyncInit /\ StatusIdle /\ ManualInit /\ ApiInit

\* The sync task with synchronisers that change status and throw nothing
Next ==
    \/ CreateSyncTask
    \/ TaskRun(MaxPasses)
    \/ \E p \in PassIds : RecoverReturn(p)
    \/ \E p \in PassIds : SyncReturn(p)
    \/ TaskStop
    \/ StopReturn
    \/ StopThrow
    \/ SynchroniserStatusChange

Spec == Init /\ [][Next]_vars

\* The sync task with synchronisers that throw and fire no status event
NextErrors ==
    \/ CreateSyncTask
    \/ TaskRun(MaxErrorPasses)
    \/ \E p \in PassIds : RecoverReturn(p)
    \/ \E p \in PassIds : RecoverThrow(p)
    \/ \E p \in PassIds : SyncReturn(p)
    \/ \E p \in PassIds : SyncThrow(p)
    \/ TaskStop

SpecErrors == Init /\ [][NextErrors]_vars

InitStatus ==
    /\ csStore \in BOOLEAN
    /\ csStatuses \in [SyncIdx -> SyncStatus]
    /\ csOut = "none"
    /\ csOutPerm = "none"
    /\ ConflictsIdle
    /\ SyncIdle
    /\ ManualInit
    /\ ApiInit

\* One evaluation over the list as given and one over a permutation of it
ComputeStatusCall ==
    /\ csOut = "none"
    /\ \E p \in Perms :
        /\ csOut' = computeStatus(csStore, csStatuses)
        /\ csOutPerm' = computeStatus(csStore, Permuted(csStatuses, p))
    /\ UNCHANGED <<csStore, csStatuses>>
    /\ UNCHANGED <<ccStore, ccSynchronisers, ccService, ccPasses, ccLast>>
    /\ UNCHANGED <<syncVars, manualVars, apiVars>>

NextStatus == ComputeStatusCall

SpecStatus == InitStatus /\ [][NextStatus]_vars

\* The state after the constructor (lines 337-360): updateStatus() ran once
InitConflicts ==
    /\ csStore = FALSE
    /\ csStatuses = [i \in SyncIdx |-> "Idle"]
    /\ csOut = "none"
    /\ csOutPerm = "none"
    /\ ccStore \in BOOLEAN
    /\ ccSynchronisers = [i \in SyncIdx |-> [status |-> "Idle", conflicts |-> <<>>]]
    /\ \E t \in {Undefined, Stamp(0)} :
           ccService = [status |-> computeStatus(ccStore, [i \in SyncIdx |-> "Idle"]),
                        conflicts |-> SyncResourceConflicts(ccSynchronisers),
                        lastSyncTime |-> t, storage |-> t, clock |-> 1,
                        fired |-> FALSE]
    /\ ccPasses = 0
    /\ ccLast = "updateStatus"
    /\ SyncIdle
    /\ ManualInit
    /\ ApiInit

NextConflicts ==
    \/ SynchroniserFiresStatus
    \/ SynchroniserFiresConflicts
    \/ SyncSetsStatus
    \/ SyncFinally

SpecConflicts == InitConflicts /\ [][NextConflicts]_vars

\* One manual sync task; the orchestrator is idle
InitManual == SyncIdle /\ StatusIdle /\ ManualInit /\ ApiInit

NextManual ==
    \/ ManualPreview
    \/ \E f \in FetchIds : FetchReturn(f)
    \/ \E f \in FetchIds : FetchThrow(f)
    \/ ManualAccept
    \/ ManualMerge
    \/ ManualPull
    \/ ManualPush
    \/ ManualStop
    \/ \E o \in OpIds : ResolveContentReturn(o)
    \/ \E o \in OpIds : ResolveContentThrow(o)
    \/ \E o \in OpIds : AcceptPreviewContentReturn(o)
    \/ \E o \in OpIds : AcceptPreviewContentThrow(o)
    \/ \E o \in OpIds : ManualStopReturn(o)
    \/ \E o \in OpIds : ManualStopThrow(o)

SpecManual == InitManual /\ [][NextManual]_vars

\* One manual sync task on which an accept() is overlapped by another
\* accept() or by a stop()
NextOverlap ==
    \/ FirstPreview
    \/ \E f \in FetchIds : FetchReturn(f)
    \/ \E f \in FetchIds : FetchThrow(f)
    \/ ManualAccept
    \/ OverlapAccept
    \/ OverlapStop
    \/ \E o \in OpIds : AcceptPreviewContentReturn(o)
    \/ \E o \in OpIds : AcceptPreviewContentThrow(o)
    \/ \E o \in OpIds : ManualStopReturn(o)
    \/ \E o \in OpIds : ManualStopThrow(o)

SpecOverlap == InitManual /\ [][NextOverlap]_vars

\* The public operations, one at a time, with the store configured or not
NextApi ==
    \/ ApiCall
    \/ ApiReturn
    \/ ApiThrow

SpecApi == Init /\ [][NextApi]_vars

(***************************************************************************)
(* C1: computeStatus() is Uninitialized when the store is not configured;   *)
(* otherwise HasConflicts if some synchroniser is HasConflicts; otherwise   *)
(* Syncing if some synchroniser is Syncing; otherwise Idle; and the result  *)
(* is the same for every permutation of the synchroniser list.              *)
(***************************************************************************)
C1_ComputeStatus ==
    csOut # "none" =>
        /\ csOut = csOutPerm
        /\ ~csStore => csOut = "Uninitialized"
        /\ (csStore /\ \E i \in SyncIdx : csStatuses[i] = "HasConflicts")
               => csOut = "HasConflicts"
        /\ (csStore /\ (\A i \in SyncIdx : csStatuses[i] # "HasConflicts")
                    /\ \E i \in SyncIdx : csStatuses[i] = "Syncing")
               => csOut = "Syncing"
        /\ (csStore /\ \A i \in SyncIdx : csStatuses[i] \notin {"HasConflicts", "Syncing"})
               => csOut = "Idle"

\* A configured store, a Syncing synchroniser ahead of a HasConflicts one
C1_Witness ==
    /\ csOut = "HasConflicts"
    /\ csStore
    /\ \E i, j \in SyncIdx : i < j /\ csStatuses[i] = "Syncing" /\ csStatuses[j] = "HasConflicts"

(***************************************************************************)
(* C2: on a task returned by createSyncTask(), the first run() starts the   *)
(* sync pass and every later run() on the same task fails with 'Can run a   *)
(* task only once' without starting a second sync pass: the task never has  *)
(* started more than one pass, and a run() after the first leaves that      *)
(* error.                                                                   *)
(***************************************************************************)
C2_RunOnlyOnce ==
    /\ Cardinality(Started) <= 1
    /\ (Cardinality(Started) = 1 /\ lastError # "none")
           => lastError = "Can run a task only once"

(***************************************************************************)
(* C3: if stop() is called on a sync task while its run() is in flight, the *)
(* token of that run is cancelled and, from then until the run has ended,   *)
(* neither lastSyncTime nor the stored 'sync.lastSyncTime' is written.      *)
(* Stated for a task whose run() was called once.                           *)
(***************************************************************************)
C3_StopKeepsLastSyncTime ==
    [][\A p \in PassIds :
          (Started = {p} /\ Running(p)) =>
              /\ (TaskStop /\ cancellablePromise = p) => pass'[p].cancelled
              /\ pass[p].cancelled => (lastSyncTime' = lastSyncTime /\ storage' = storage)
      ]_vars

\* The codes the claims name as ending the loop
C_AbortCodes == {"TooManyRequests", "LocalTooManyRequests", "Gone", "UpgradeRequired", "Incompatible"}

\* An error that is neither a TooLarge nor an abort-class UserDataSyncError
C_ResourceLocal(e) ==
    ~(e.kind = "UserDataSyncError" /\ e.code \in {"TooLarge"} \cup C_AbortCodes)

\* Pass p ran its loop alone, was not cancelled, and every error its
\* synchronisers threw was resource-local
C4_Case(p) ==
    /\ pass[p].pc = "done"
    /\ pass[p].entered
    /\ ~pass[p].cancelled
    /\ ~pass[p].overlapped
    /\ pass[p].thrown # <<>>
    /\ \A k \in DOMAIN pass[p].thrown :
           pass[p].thrown[k][1] # 0 /\ C_ResourceLocal(pass[p].thrown[k][2])

(***************************************************************************)
(* C4: in a sync() pass in which synchronisers throw errors that are not    *)
(* TooLarge, TooManyRequests, LocalTooManyRequests, Gone, UpgradeRequired   *)
(* or Incompatible, every synchroniser is still invoked, in order, sync()   *)
(* resolves, and the list fired through onSyncErrors holds exactly one      *)
(* entry per failing synchroniser, tagged with its resource, in order, and  *)
(* none for the others. Stated for a pass that is not cancelled and that no *)
(* other pass overlaps.                                                     *)
(***************************************************************************)
C4_LocalErrorsIsolated ==
    \A p \in PassIds :
        C4_Case(p) =>
            /\ pass[p].invoked = [i \in SyncIdx |-> i]
            /\ pass[p].result = Resolved
            /\ Len(pass[p].published) = 1
            /\ Len(pass[p].published[1]) = Len(pass[p].thrown)
            /\ \A k \in DOMAIN pass[p].thrown :
                   /\ pass[p].published[1][k][1] = synchronisers[pass[p].thrown[k][1]]
                   /\ pass[p].published[1][k][2].kind = "UserDataSyncError"

\* The second and the fourth synchroniser failed, one with a UserDataSyncError
C4_Witness ==
    \E p \in PassIds :
        /\ C4_Case(p)
        /\ Len(pass[p].thrown) = 2
        /\ pass[p].thrown[1][1] = 2
        /\ pass[p].thrown[2][1] = 4
        /\ pass[p].thrown[1][2].code = "Unauthorized"
        /\ pass[p].thrown[2][2] = PlainError

(***************************************************************************)
(* C5: when a synchroniser's sync throws a UserDataSyncError with code      *)
(* TooManyRequests, LocalTooManyRequests, Gone, UpgradeRequired or          *)
(* Incompatible, no synchroniser later in the order is invoked in that pass *)
(* and sync() rejects with that same error.                                 *)
(***************************************************************************)
C5_AbortErrorsPropagate ==
    \A p \in PassIds : \A k \in DOMAIN pass[p].thrown :
        LET i == pass[p].thrown[k][1]
            e == pass[p].thrown[k][2]
        IN (e.kind = "UserDataSyncError" /\ e.code \in C_AbortCodes) =>
               /\ pass[p].pc = "done"
               /\ k = Len(pass[p].thrown)
               /\ pass[p].invoked = [j \in 1..i |-> j]
               /\ pass[p].result = e

\* The first synchroniser failed with a local error, the third with Gone
C5_Witness ==
    \E p \in PassIds :
        /\ Len(pass[p].thrown) = 2
        /\ pass[p].thrown[1][1] = 1
        /\ pass[p].thrown[2][1] = 3
        /\ pass[p].thrown[2][2].code = "Gone"
        /\ pass[p].result.code = "Gone"
        /\ Len(pass[p].published) = 1

(***************************************************************************)
(* C6: when a synchroniser's sync throws a TooLarge error, no later         *)
(* synchroniser is invoked and the error that reaches the caller has code   *)
(* TooLarge and, as its resource, the resource of the synchroniser that     *)
(* threw, whatever resource the original error carried.                     *)
(***************************************************************************)
C6_TooLargeTagged ==
    \A p \in PassIds : \A k \in DOMAIN pass[p].thrown :
        LET i == pass[p].thrown[k][1]
            e == pass[p].thrown[k][2]
        IN (e.kind = "UserDataSyncError" /\ e.code = "TooLarge") =>
               /\ pass[p].pc = "done"
               /\ k = Len(pass[p].thrown)
               /\ pass[p].invoked = [j \in 1..i |-> j]
               /\ pass[p].result.kind = "UserDataSyncError"
               /\ pass[p].result.code = "TooLarge"
               /\ pass[p].result.resource = synchronisers[i]

\* The snippets synchroniser threw a TooLarge error created for settings
C6_Witness ==
    \E p \in PassIds :
        /\ pass[p].thrown = <<(<<3, UserDataSyncError("TooLarge", "settings")>>)>>
        /\ pass[p].result = UserDataSyncError("TooLarge", "snippets")


(***************************************************************************)
(* Claims about ManualSyncTask, under SpecManual.                           *)
(***************************************************************************)
\* The calls that apply previews
C_Applying == {"accept", "merge", "pull", "push"}

\* No preview() of the task had resolved when call o was made
C_NotPreviewed(o) == ~\E q \in ops[o].after : ops[q].kind = "preview"

\* stop() was not called on the task before call o
C_NotStopped(o) == \A q \in 1..(o - 1) : ops[q].kind # "stop"

\* C7: accept(), merge(), pull() and push() made on a task none of whose
\* preview() calls has resolved fail with 'You need to create preview before
\* applying' and call no synchroniser.
C7_NotReadyBeforePreview ==
    \A o \in DOMAIN ops :
        (ops[o].kind \in C_Applying /\ C_NotPreviewed(o))
            => /\ ops[o].outcome = "notReady"
               /\ ops[o].pc = "done"
               /\ ops[o].calls = <<>>

\* push() is refused while the first preview() still awaits getPreviews()
C7_Witness ==
    \E o \in DOMAIN ops, q \in DOMAIN ops :
        /\ q < o
        /\ ops[q].kind = "preview" /\ ops[q].pc = "await"
        /\ ops[o].kind = "push" /\ C_NotPreviewed(o)
        /\ ops[o].outcome = "notReady"

\* A preview() that had resolved before call o returned an empty list, and
\* the task was not stopped since
C8_Case(o) ==
    /\ ops[o].kind \in {"pull", "push"}
    /\ C_NotStopped(o)
    /\ \E q \in ops[o].after : ops[q].kind = "preview" /\ ops[q].list = <<>>

\* C8: after preview() returned an empty list, pull() and push() resolve,
\* call neither resolveContent nor acceptPreviewContent, and leave an empty
\* pending list.
C8_EmptyPullPush ==
    \A o \in DOMAIN ops :
        C8_Case(o)
            => /\ ops[o].outcome = "resolved"
               /\ ops[o].calls = <<>>
               /\ o = Len(ops) => (previews # 0 /\ arrays[previews] = <<>>)

\* push() after a preview() in which every synchroniser returned null
C8_Witness ==
    \E o \in DOMAIN ops :
        /\ C8_Case(o)
        /\ ops[o].kind = "push"
        /\ ops[o].outcome = "resolved"
        /\ fetches[1].called = manualSynchronisers
        /\ previews = OwnArray(o)

\* C9: accept(resource, content) calls acceptPreviewContent of the owning
\* entry's synchroniser with force = TRUE exactly when resource is a local or
\* a remote resource of a sub-preview of that entry, and with force = FALSE
\* when it is a preview resource.
C9_AcceptForce ==
    \A o \in DOMAIN ops :
        (ops[o].kind = "accept" /\ ops[o].calls # <<>>)
            => LET c == ops[o].calls[1]
                   entry == ops[o].list[ops[o].index]
                   subs == entry[2].resourcePreviews
               IN  /\ c.fn = "acceptPreviewContent"
                   /\ c.uri = ops[o].resource
                   /\ c.res = entry[1]
                   /\ c.force <=> ops[o].resource.slot \in {"local", "remote"}
                   /\ c.force <=> \E k \in DOMAIN subs :
                                      \/ ops[o].resource = subs[k].localResource
                                      \/ ops[o].resource = subs[k].remoteResource
                   /\ (\E k \in DOMAIN subs : ops[o].resource = subs[k].previewResource)
                          => ~c.force

\* accept() of the remote resource of the second sub-preview of the second entry
C9_Witness ==
    \E o \in DOMAIN ops :
        /\ ops[o].kind = "accept"
        /\ ops[o].index = 2
        /\ ops[o].resource.slot = "remote" /\ ops[o].resource.sub = 2
        /\ ops[o].calls # <<>>
        /\ ops[o].calls[1].force

RECURSIVE C_TargetsFrom(_, _, _)
C_TargetsFrom(log, fn, i) ==
    IF i > Len(log) THEN <<>>
    ELSE IF log[i].fn = fn THEN <<log[i].target>> \o C_TargetsFrom(log, fn, i + 1)
    ELSE C_TargetsFrom(log, fn, i + 1)

C_Targets(fn) == C_TargetsFrom(api.log, fn, 1)

\* C11: resetLocal() with the store configured first removes the stored
\* 'sync.lastSyncTime', then calls resetLocal on every synchroniser once, in
\* the fixed order, whichever of those calls throw, and resolves.
C11_ResetLocal ==
    (api.op = "resetLocal" /\ storeConfigured)
        => /\ api.log[1] = Entry("storageService.remove", LAST_SYNC_TIME_KEY)
           /\ storage = Undefined
           /\ C_Targets("resetLocal") = SubSeq(synchronisers, 1, Len(C_Targets("resetLocal")))
           /\ api.pc = "resetLocal" => api.at = Len(C_Targets("resetLocal"))
           /\ api.pc = "done" => /\ api.result = Resolved
                                 /\ C_Targets("resetLocal") = synchronisers

\* resetLocal() has resolved after the first and the last synchroniser threw,
\* with a last-sync-time that an earlier operation had stored
C11_Witness ==
    /\ api.op = "resetLocal" /\ api.pc = "done" /\ api.result = Resolved
    /\ C_Targets("logService.error") = <<"settings", "extensions">>
    /\ lastSyncTime # Undefined
    /\ storage = Undefined

\* C12: with no store configured, every public operation fails with 'Not
\* enabled' before it calls a synchroniser, the store client or storage, and
\* leaves status, conflicts and lastSyncTime as they were.
C12_NotEnabled ==
    (~storeConfigured /\ api.op # "none")
        => /\ api.pc = "done"
           /\ api.result = NotEnabled
           /\ api.log = <<>>
           /\ status = "Uninitialized"
           /\ conflicts = <<>>
           /\ lastSyncTime = storage

(***************************************************************************)
(* Claims about sync passes, under Spec and SpecErrors.                     *)
(***************************************************************************)
\* The passes that await a synchroniser's sync()
C_InSync == {p \in PassIds : pass[p].pc = "sync"}

\* C13: at most one synchroniser call started by the orchestrator is in
\* flight, and each pass starts the synchronisers' sync in the fixed order.
C13_Sequential ==
    /\ Cardinality(C_InSync) <= 1
    /\ \A p \in PassIds : pass[p].invoked = [i \in 1..Len(pass[p].invoked) |-> i]

(***************************************************************************)
(* More claims about ManualSyncTask, under SpecManual.                      *)
(***************************************************************************)
\* The preview() calls that have resolved
C_Previews == {q \in DOMAIN ops : ops[q].kind = "preview" /\ ops[q].outcome = "resolved"}

\* C14: on a task that was not stopped, the preview() calls, also those made
\* while the first is in flight, make getPreviews() run once, each
\* synchroniser's preview() is called at most once, and every call resolves
\* to the same array, with the same entries while nothing was accepted.
C14_PreviewOnce ==
    (\A q \in DOMAIN ops : ops[q].kind # "stop")
        => /\ Fetched <= 1
           /\ \A f \in FetchIds :
                fetches[f].called = SubSeq(manualSynchronisers, 1, Len(fetches[f].called))
           /\ \A q \in C_Previews : ops[q].ret = 1
           /\ (\A q \in DOMAIN ops : ops[q].kind = "preview")
                => \A q1, q2 \in C_Previews : ops[q1].list = ops[q2].list

\* Two preview() calls, the second made before the first resolved, have
\* resolved to a list with an entry of every synchroniser
C14_Witness ==
    /\ Len(ops) = 2
    /\ C_Previews = {1, 2}
    /\ ops[2].after = {}
    /\ Len(ops[1].list) = MaxManualSynchronisers
    /\ fetches[1].called = manualSynchronisers

\* C15: once pull() or push() has emptied the pending list, no later
\* preview(), accept() or merge() makes it non-empty again.
C15_ResolvedIsTerminal ==
    \A o \in DOMAIN ops :
        (/\ ops[o].kind \in {"pull", "push"}
         /\ ops[o].outcome = "resolved"
         /\ \A q \in (o + 1)..Len(ops) : ops[q].kind \in {"preview", "accept", "merge"})
            => (previews # 0 /\ arrays[previews] = <<>>)

\* C16: once stop() was called, no later preview() starts a new round of
\* synchroniser previews, no pending list becomes present, and accept(),
\* merge(), pull() and push() fail as not ready.
C16_StoppedIsTerminal ==
    \A o \in DOMAIN ops :
        ops[o].kind = "stop"
            => /\ previews = 0
               /\ \A q \in (o + 1)..Len(ops) :
                    /\ ops[q].kind \in C_Applying => ops[q].outcome = "notReady"
                    /\ ops[q].kind = "preview"
                         => \E q0 \in 1..(o - 1) :
                                ops[q0].kind = "preview" /\ ops[q0].arr = ops[q].arr

\* C17: once the token of a pass is cancelled the pass starts no further
\* synchroniser's sync; the calls it made stay made, and cancelling changes
\* neither a synchroniser's status nor the service's status and conflicts.
C17_NoSyncAfterCancel ==
    [][\A p \in PassIds :
          /\ pass[p].cancelled => pass'[p].invoked = pass[p].invoked
          /\ Len(pass'[p].invoked) >= Len(pass[p].invoked)
          /\ SubSeq(pass'[p].invoked, 1, Len(pass[p].invoked)) = pass[p].invoked
          /\ (~pass[p].cancelled /\ pass'[p].cancelled)
                => (sStatus' = sStatus /\ status' = status /\ conflicts' = conflicts)
      ]_vars

\* A pass was cancelled while it awaited its second synchroniser and ended
\* there
C17_Witness ==
    \E p \in PassIds :
        /\ pass[p].cancelled
        /\ pass[p].entered
        /\ pass[p].pc = "done"
        /\ pass[p].invoked = <<1, 2>>

\* C18: a sync() that finds its token cancelled at the first check returns
\* with status, conflicts, the error list and lastSyncTime as they were,
\* fires no onSyncErrors and calls no synchroniser's sync.
C18_CancelledAtEntry ==
    [][\A p \in PassIds :
          (RecoverReturn(p) /\ pass[p].cancelled)
              => /\ status' = status
                 /\ conflicts' = conflicts
                 /\ syncErrors' = syncErrors
                 /\ lastSyncTime' = lastSyncTime
                 /\ storage' = storage
                 /\ pass'[p].pc = "done"
                 /\ pass'[p].result = Resolved
                 /\ pass'[p].invoked = <<>>
                 /\ pass'[p].published = <<>>
      ]_vars

\* A pass cancelled during recoverSettings() has returned at the first check
C18_Witness ==
    \E p \in PassIds :
        /\ pass[p].pc = "done"
        /\ pass[p].cancelled
        /\ ~pass[p].entered
        /\ pass[p].result = Resolved
        /\ recoveredSettings

\* C19: a pass that got past the first check fires onSyncErrors once, with
\* the error list, when it ends and not before, calls no synchroniser after
\* that, and ends with status and conflicts recomputed: computeStatus() and
\* computeConflicts() over the synchronisers' statuses.
C19_FinallyPublishes ==
    [][\A p \in PassIds :
          /\ (pass'[p].entered /\ pass'[p].pc # "done") => pass'[p].published = <<>>
          /\ (pass'[p].entered /\ pass'[p].pc = "done") => Len(pass'[p].published) = 1
          /\ pass[p].pc = "done" => pass'[p].invoked = pass[p].invoked
          /\ (pass[p].pc # "done" /\ pass'[p].pc = "done" /\ pass'[p].entered)
                => /\ pass'[p].published = <<syncErrors'>>
                   /\ status' = computeStatus(storeConfigured, sStatus')
                   /\ conflicts' = computeConflicts(sStatus')
      ]_vars

\* A pass ended by a TooLarge error of its third synchroniser has fired the
\* error of its first
C19_Witness ==
    \E p \in PassIds :
        /\ pass[p].pc = "done"
        /\ pass[p].entered
        /\ pass[p].result.code = "TooLarge"
        /\ pass[p].invoked = <<1, 2, 3>>
        /\ Len(pass[p].published) = 1
        /\ Len(pass[p].published[1]) = 1
        /\ status = "Idle"

\* C20: when the loop of a pass has gone over all synchronisers, the pass
\* was not cancelled and every synchroniser is Idle, sync() resolves with
\* lastSyncTime and the stored 'sync.lastSyncTime' set to the time of
\* completion.
C20_LastSyncTimeOnCompletion ==
    [][\A p \in PassIds :
          (/\ pass[p].pc = "sync"
           /\ pass'[p].pc = "done"
           /\ ~pass'[p].cancelled
           /\ pass'[p].result = Resolved
           /\ pass'[p].invoked = [i \in SyncIdx |-> i]
           /\ \A i \in SyncIdx : sStatus'[i] = "Idle")
              => /\ lastSyncTime' = Stamp(clock)
                 /\ storage' = Stamp(clock)
      ]_vars

(***************************************************************************)
(* Claims about the orchestrator's status and its recovery step.            *)
(***************************************************************************)

\* One pass of the sync task with synchronisers that change status and throw
NextPass ==
    \/ CreateSyncTask
    \/ TaskRun(MaxErrorPasses)
    \/ \E p \in PassIds : RecoverReturn(p)
    \/ \E p \in PassIds : RecoverThrow(p)
    \/ \E p \in PassIds : SyncReturn(p)
    \/ \E p \in PassIds : SyncThrow(p)
    \/ TaskStop
    \/ StopReturn
    \/ StopThrow
    \/ SynchroniserStatusChange

SpecPass == Init /\ [][NextPass]_vars

\* C21: every change of the status from HasConflicts to another status
\* rewrites lastSyncTime and the stored 'sync.lastSyncTime' with the time of
\* the change.
C21_RefreshAfterConflicts ==
    [][(status = "HasConflicts" /\ status' # "HasConflicts")
          => (lastSyncTime' = Stamp(clock) /\ storage' = Stamp(clock))
      ]_vars

\* C22: when a pass that got past the first check ends, the status is
\* computeStatus() over the synchronisers' statuses; and while no pass is
\* inside its loop the status is computeStatus() over them, so it is not
\* Syncing unless a synchroniser is.
C22_StatusRecomputed ==
    [][/\ \A p \in PassIds :
             (pass[p].pc # "done" /\ pass'[p].pc = "done" /\ pass'[p].entered)
                 => status' = computeStatus(storeConfigured, sStatus')
       /\ (\A p \in PassIds : pass'[p].pc # "sync")
             => /\ status' = computeStatus(storeConfigured, sStatus')
                /\ status' = "Syncing" => \E i \in SyncIdx : sStatus'[i] = "Syncing"
      ]_vars

\* A pass that set the status to Syncing was stopped while a synchroniser
\* was in HasConflicts, and has ended with that synchroniser stopped
C22_Witness ==
    \E p \in PassIds :
        /\ pass[p].pc = "done"
        /\ pass[p].entered
        /\ pass[p].cancelled
        /\ stopAt = 0
        /\ status = "Idle"
        /\ lastSyncTime = Stamp(1)

\* C23: recoverSettings() is not awaited by two passes at once.
C23_RecoverOnce == Cardinality({p \in PassIds : pass[p].pc = "recover"}) <= 1

(***************************************************************************)
(* Claims about the service's operations, under SpecApi.                    *)
(***************************************************************************)

\* C24: with the store configured, pull() and push() call the one-way
\* operation of the synchronisers in order, each once, whatever these calls
\* throw, and resolve with every synchroniser called.
C24_PullPushIsolated ==
    (api.op \in {"pull", "push"} /\ storeConfigured)
        => /\ C_Targets(api.op) = SubSeq(synchronisers, 1, Len(C_Targets(api.op)))
           /\ api.pc = "done" => /\ api.result = Resolved
                                 /\ C_Targets(api.op) = synchronisers

(***************************************************************************)
(* Claims about the manual sync task, under SpecManual.                     *)
(***************************************************************************)

\* Call o is not overlapped by merge(), pull(), push(), stop() or another
\* accept(): the other such calls had resolved when o was made
C_Alone(o) ==
    \A q \in DOMAIN ops \ {o} : ops[q].kind = "preview" \/ q \in ops[o].after

\* The list without its entry at index
C_Without(list, index) == SubSeq(list, 1, index - 1) \o SubSeq(list, index + 1, Len(list))

\* C25: accept(resource, content) on a pending list changes only the entry
\* that owns resource. When the synchroniser returns a preview the entry at
\* that index is replaced by an entry of the same resource and the others
\* stay where they are; when it returns nothing the entry is removed and the
\* others keep their order; when no entry owns resource no synchroniser is
\* called and the list is returned as it was.
C25_AcceptChangesOneEntry ==
    [][/\ \A o \in DOMAIN ops :
             (/\ ops[o].kind = "accept"
              /\ ops[o].pc = "acceptPreviewContent"
              /\ ops'[o].outcome = "resolved"
              /\ C_Alone(o))
                 => LET L == ops[o].list
                        i == ops[o].index
                        R == arrays'[ops'[o].ret]
                    IN  /\ i = findIndex(L, ops[o].resource)
                        /\ i # 0
                        /\ ops'[o].calls = <<Call("acceptPreviewContent", L[i][1],
                                                  ops[o].resource, ops[o].content,
                                                  acceptForce(L[i], ops[o].resource))>>
                        /\ \/ /\ Len(R) = Len(L)
                              /\ R[i][1] = L[i][1]
                              /\ \A k \in DOMAIN L : k # i => R[k] = L[k]
                           \/ R = C_Without(L, i)
       /\ (/\ Len(ops') = Len(ops) + 1
           /\ ops'[Len(ops')].kind = "accept"
           /\ ops'[Len(ops')].outcome = "resolved")
              => LET op == ops'[Len(ops')]
                 IN  /\ findIndex(op.list, op.resource) = 0
                     /\ op.calls = <<>>
                     /\ arrays' = arrays
                     /\ arrays'[op.ret] = op.list
      ]_vars

\* accept() of a resource of the first of two entries has replaced that entry
C25_Witness ==
    \E o \in DOMAIN ops :
        /\ ops[o].kind = "accept"
        /\ ops[o].outcome = "resolved"
        /\ ops[o].index = 1
        /\ Len(ops[o].list) = 2
        /\ Len(arrays[ops[o].ret]) = 2
        /\ arrays[ops[o].ret][1] # ops[o].list[1]
        /\ arrays[ops[o].ret][2] = ops[o].list[2]

\* The entries of a list that have a conflicted sub-preview
C_Conflicted(list) ==
    {k \in DOMAIN list :
        \E j \in DOMAIN list[k][2].resourcePreviews : list[k][2].resourcePreviews[j].hasConflicts}

\* C26: merge() calls acceptPreviewContent for no conflicted sub-preview,
\* and every resource of the pending list that has a conflicted sub-preview
\* is in the list merge() leaves.
C26_MergeKeepsConflicted ==
    \A o \in DOMAIN ops :
        (ops[o].kind = "merge" /\ ops[o].outcome = "resolved")
            => /\ \A c \in DOMAIN ops[o].calls :
                     ops[o].calls[c].fn = "acceptPreviewContent"
                         => \E k \in DOMAIN ops[o].list :
                                \E j \in DOMAIN ops[o].list[k][2].resourcePreviews :
                                    LET rp == ops[o].list[k][2].resourcePreviews[j]
                                    IN  /\ rp.previewResource = ops[o].calls[c].uri
                                        /\ ~rp.hasConflicts
               /\ \A k \in C_Conflicted(ops[o].list) :
                     \E n \in DOMAIN ops[o].local : ops[o].local[n][1] = ops[o].list[k][1]

\* The sub-previews of a list from entry k on, in list order, each with the
\* resource of its entry
RECURSIVE C_SubPreviewsFrom(_, _)
C_SubPreviewsFrom(list, k) ==
    IF k > Len(list) THEN <<>>
    ELSE [j \in DOMAIN list[k][2].resourcePreviews |->
             <<list[k][1], list[k][2].resourcePreviews[j]>>]
         \o C_SubPreviewsFrom(list, k + 1)

C_SubPreviews(list) == C_SubPreviewsFrom(list, 1)

\* The resource of a sub-preview that pull() and push() must take
C_Side(kind, rp) == IF kind = "pull" THEN rp.remoteResource ELSE rp.localResource

\* C27: pull() (push()) on a pending list resolves after it has called, for
\* every sub-preview of every entry in list order, resolveContent and then
\* acceptPreviewContent with the remote (local) resource of the sub-preview
\* and force = true, and nothing else; when it resolves the pending list is
\* empty.
C27_PullPushForceSide ==
    [][\A o \in DOMAIN ops' :
          (/\ ops'[o].kind \in {"pull", "push"}
           /\ ops'[o].outcome = "resolved"
           /\ o \in DOMAIN ops => ops[o].outcome = "pending"
           /\ \A q \in DOMAIN ops' \ {o} :
                 ops'[q].kind = "preview" \/ q \in ops'[o].after)
              => LET op == ops'[o]
                     subs == C_SubPreviews(op.list)
                 IN  /\ Len(op.calls) = 2 * Len(subs)
                     /\ \A n \in DOMAIN subs :
                           LET uri == C_Side(op.kind, subs[n][2])
                               rc == op.calls[2 * n - 1]
                               ac == op.calls[2 * n]
                           IN  /\ rc.fn = "resolveContent"
                               /\ rc.res = subs[n][1]
                               /\ rc.uri = uri
                               /\ ac.fn = "acceptPreviewContent"
                               /\ ac.res = subs[n][1]
                               /\ ac.uri = uri
                               /\ ac.force
                               /\ uri # subs[n][2].previewResource
                     /\ previews' # 0
                     /\ arrays'[previews'] = <<>>
      ]_vars

\* pull() over two entries with three sub-previews between them has resolved
C27_Witness ==
    \E o \in DOMAIN ops :
        /\ ops[o].kind = "pull"
        /\ ops[o].outcome = "resolved"
        /\ Len(ops[o].list) = 2
        /\ Len(ops[o].calls) = 6
        /\ ops[o].calls[6].content = "text"
        /\ previews # 0
        /\ arrays[previews] = <<>>

\* The list getPreviews() must build from what the synchronisers' preview()
\* returned, from synchroniser i on
RECURSIVE C_ExpectedFrom(_, _)
C_ExpectedFrom(returned, i) ==
    IF i > Len(returned) THEN <<>>
    ELSE (IF returned[i] = Null THEN <<>>
          ELSE <<toSyncResourcePreview(manualSynchronisers[i], returned[i][1])>>)
         \o C_ExpectedFrom(returned, i + 1)

\* C28: the list a preview() call gets from the getPreviews() call it
\* awaited has one pair for each synchroniser whose preview() returned a
\* value and none for those that returned null, in the order of the
\* synchronisers; the synchronisers' preview() calls are made in that order
\* with one call awaited at a time.
C28_PreviewList ==
    [][/\ \A o \in DOMAIN ops :
             (/\ ops[o].kind = "preview"
              /\ ops[o].pc = "await"
              /\ ops'[o].outcome = "resolved")
                 => LET ft == fetches'[ops'[o].ret]
                    IN  /\ ft.called = manualSynchronisers
                        /\ Len(ft.returned) = MaxManualSynchronisers
                        /\ ops'[o].list = C_ExpectedFrom(ft.returned, 1)
                        /\ arrays'[ops'[o].ret] = ops'[o].list
       /\ \A f \in FetchIds :
             LET ft == fetches'[f]
             IN  /\ ft.called = SubSeq(manualSynchronisers, 1, Len(ft.called))
                 /\ Len(ft.called) - Len(ft.returned) \in {0, 1}
                 /\ ft.pc = "preview" => Len(ft.called) = Len(ft.returned) + 1
      ]_vars

\* preview() has resolved with the second synchroniser's entry only: the
\* first synchroniser's preview() returned null
C28_Witness ==
    \E o \in DOMAIN ops :
        /\ ops[o].kind = "preview"
        /\ ops[o].outcome = "resolved"
        /\ fetches[ops[o].ret].returned[1] = Null
        /\ Len(ops[o].list) = 1
        /\ ops[o].list[1][1] = manualSynchronisers[2]

\* The synchronisers whose fn a call on the task has called, in call order
C_Called(op, fn) ==
    LET cs == SelectSeq(op.calls, LAMBDA c : c.fn = fn)
    IN  [n \in DOMAIN cs |-> cs[n].res]

\* C29: stop() cancels the preview fetch in flight, whose preview() calls
\* reject as cancelled, and leaves the task without pending list and without
\* previews promise; it calls stop of the synchronisers in order, each once,
\* also after calls that threw; it never rejects, and it logs no
\* cancellation error.
C29_StopNeverRejects ==
    [][/\ (Len(ops') > Len(ops) /\ ops'[Len(ops')].kind = "stop")
             => /\ previews' = 0
                /\ previewsPromise' = 0
                /\ previewsPromise # 0
                      => /\ fetches'[previewsPromise].cancelled
                         /\ fetches'[previewsPromise].settled # "pending"
                         /\ \A q \in DOMAIN ops :
                               (ops[q].pc = "await" /\ ops[q].arr = previewsPromise)
                                   => ops'[q].outcome = "canceled"
       /\ \A o \in DOMAIN ops' :
             ops'[o].kind = "stop"
                 => /\ ops'[o].outcome \in {"pending", "resolved"}
                    /\ C_Called(ops'[o], "stop")
                          = SubSeq(manualSynchronisers, 1, Len(C_Called(ops'[o], "stop")))
                    /\ ops'[o].outcome = "resolved"
                          => C_Called(ops'[o], "stop") = manualSynchronisers
                    /\ \A c \in DOMAIN ops'[o].calls :
                          ops'[o].calls[c].fn = "logService.error"
                              => ~isPromiseCanceledError(ops'[o].calls[c].content)
      ]_vars

\* stop() has resolved after the first synchroniser's stop() threw an error
\* that was logged, and a preview() call was rejected as cancelled
C29_Witness ==
    \E o \in DOMAIN ops :
        /\ ops[o].kind = "stop"
        /\ ops[o].outcome = "resolved"
        /\ Len(ops[o].calls) = MaxManualSynchronisers + 1
        /\ ops[o].calls[2].fn = "logService.error"
        /\ \E q \in DOMAIN ops : ops[q].kind = "preview" /\ ops[q].outcome = "canceled"
        /\ previews = 0

(***************************************************************************)
(* Claims about the orchestrator's stop(), under Spec.                      *)
(***************************************************************************)

\* C30: stop() calls no synchroniser when the status is Idle. Otherwise it
\* goes over the synchronisers in order and calls stop() of those that are
\* not Idle when the loop reaches them, each at most once, also after a
\* stop() that threw: the loop ends only when no synchroniser is left.
C30_StopNonIdle ==
    [][/\ (stopAt = 0 /\ status = "Idle") => stopAt' = 0
       /\ stopAt' # stopAt
             => /\ stopAt' # 0 => (stopAt' > stopAt /\ sStatus'[stopAt'] # "Idle")
                /\ \A i \in SyncIdx :
                      (i > stopAt /\ (stopAt' = 0 \/ i < stopAt'))
                          => sStatus'[i] = "Idle"
      ]_vars

\* stop() awaits the second synchroniser's stop() after the first one's
\* threw and left that synchroniser in HasConflicts
C30_Witness ==
    /\ stopAt = 2
    /\ sStatus[1] = "HasConflicts"
    /\ sStatus[2] = "Syncing"

(***************************************************************************)
(* Claims about replace(), resolveContent(), reset(), hasLocalData(),       *)
(* isFirstTimeSyncingWithAnotherMachine() and lastSyncTime, under SpecApi.  *)
(***************************************************************************)

\* Outcome k of the operation is a return of v
C_ReturnedAt(k, v) == ~api.outcomes[k].threw /\ api.outcomes[k].v = v

\* C32: replace() calls replace of the synchronisers in order; every call
\* before the last returned false; after a call that returned true it
\* resolves with no further call; when every call returned false it
\* resolves after all synchronisers were called once. The service's status,
\* conflicts and last sync time are as before.
C32_ReplaceFirstTrue ==
    [][(api'.op = "replace" /\ storeConfigured) =>
          LET c == api'
              n == Len(c.outcomes)
          IN  /\ C_TargetsFrom(c.log, "replace", 1) = SubSeq(synchronisers, 1, Len(c.log))
              /\ \A k \in 1..(n - 1) : ~c.outcomes[k].threw /\ c.outcomes[k].v = FALSE
              /\ c.pc = "replace" => Len(c.log) = n + 1
              /\ c.pc = "done" =>
                    /\ Len(c.log) = n
                    /\ \/ c.outcomes[n].threw /\ c.result # Resolved
                       \/ /\ ~c.outcomes[n].threw
                          /\ c.result = Resolved
                          /\ c.outcomes[n].v \/ n = NumSynchronisers
              /\ \A k \in 1..n :
                    (~c.outcomes[k].threw /\ c.outcomes[k].v) => (k = n /\ c.pc = "done")
              /\ UNCHANGED <<status, conflicts, lastSyncTime, storage>>
      ]_vars

\* replace() has resolved after the third synchroniser's replace() returned
\* true
C32_Witness ==
    /\ api.op = "replace"
    /\ api.pc = "done"
    /\ api.result = Resolved
    /\ Len(api.log) = 3
    /\ C_ReturnedAt(1, FALSE)
    /\ C_ReturnedAt(2, FALSE)
    /\ C_ReturnedAt(3, TRUE)

\* C33: when a synchroniser's resolveContent() returns a value that is not
\* null, the service's resolveContent() resolves with that value and calls
\* no further synchroniser.
C33_ResolveContentFirstNonNull ==
    (api.op = "resolveContent" /\ api.outcomes # <<>>) =>
        LET last == api.outcomes[Len(api.outcomes)]
        IN  (~last.threw /\ last.v # Null) =>
                /\ api.pc = "done"
                /\ api.result = Resolved
                /\ api.value = last.v[1]

\* C34: when clear() of the store throws in reset(), the error is logged,
\* the stored 'sync.lastSyncTime' is removed next and resetLocal of the
\* synchronisers is called in order; reset() goes on to the last
\* synchroniser and resolves.
C34_ResetAfterClearFails ==
    (api.op = "reset" /\ storeConfigured /\ api.outcomes # <<>> /\ api.outcomes[1].threw) =>
        /\ Len(api.log) >= 3
        /\ api.log[1] = Entry("clear", "store")
        /\ api.log[2] = Entry("logService.error", "store")
        /\ api.log[3] = Entry("storageService.remove", LAST_SYNC_TIME_KEY)
        /\ storage = Undefined
        /\ C_Targets("resetLocal") = SubSeq(synchronisers, 1, Len(C_Targets("resetLocal")))
        /\ api.pc \in {"resetLocal", "done"}
        /\ api.pc = "done" => api.result = Resolved /\ C_Targets("resetLocal") = synchronisers

\* reset() has resolved after clear() threw and two of the synchronisers'
\* resetLocal() threw
C34_Witness ==
    /\ api.op = "reset"
    /\ api.pc = "done"
    /\ api.result = Resolved
    /\ api.outcomes[1].threw
    /\ C_Targets("resetLocal") = synchronisers
    /\ Len(C_Targets("logService.error")) = 3
    /\ storage = Undefined

\* C35: hasLocalData() and isFirstTimeSyncingWithAnotherMachine() call
\* nothing of the global state synchroniser, and hasLocalData() resolves
\* with true exactly when hasLocalData() of one of the other four returned
\* true, with false after all four returned false.
C35_GlobalStateSkipped ==
    (api.op \in {"hasLocalData", "isFirstTimeSyncingWithAnotherMachine"}) =>
        /\ \A k \in DOMAIN api.log : api.log[k].target # "globalState"
        /\ (api.op = "hasLocalData" /\ api.pc = "done" /\ api.result = Resolved) =>
               /\ api.value = "true" <=> \E k \in DOMAIN api.outcomes : C_ReturnedAt(k, TRUE)
               /\ api.value = "false" <=>
                      /\ C_Targets("hasLocalData")
                            = <<"settings", "keybindings", "snippets", "extensions">>
                      /\ \A k \in DOMAIN api.outcomes : C_ReturnedAt(k, FALSE)
               /\ api.value \in {"true", "false"}

\* hasLocalData() has resolved with false after four calls
C35_Witness ==
    /\ api.op = "hasLocalData"
    /\ api.pc = "done"
    /\ api.value = "false"
    /\ Len(api.log) = 4
    /\ api.log[4].target = "extensions"

\* C37: when an operation of the service has completed, lastSyncTime is the
\* stored 'sync.lastSyncTime'.
C37_LastSyncTimeAgrees == api.pc = "done" => lastSyncTime = storage

(***************************************************************************)
(* Claims about calls of the manual sync task that fail or overlap.         *)
(***************************************************************************)

\* Call o is the last call made, and no call that was made before it has
\* resolved since it was made
C_Undisturbed(o) ==
    /\ o = Len(ops)
    /\ \A q \in 1..(o - 1) : q \in ops[o].after \/ ops[q].outcome \notin {"pending", "resolved"}

\* C40: when resolveContent() or acceptPreviewContent() of a synchroniser
\* throws in pull() or push(), the call rejects, makes no further
\* synchroniser call, and the task keeps its pending list: the step changes
\* no list, and with no other call on the task meanwhile the list is the one
\* pull() or push() found.
C40_PullPushThrowKeepsList ==
    [][\A o \in DOMAIN ops :
          /\ (/\ ops[o].kind \in {"pull", "push"}
              /\ ops[o].pc \in {"resolveContent", "acceptPreviewContent"}
              /\ ops'[o].pc = "done"
              /\ ops'[o].outcome # "resolved")
                 => /\ ops'[o].outcome = "error"
                    /\ ops'[o].calls = ops[o].calls
                    /\ arrays' = arrays
                    /\ previews' = previews
                    /\ previewsPromise' = previewsPromise
                    /\ C_Undisturbed(o) => (previews' # 0 /\ arrays'[previews'] = ops[o].list)
          /\ (ops[o].kind \in {"pull", "push"} /\ ops[o].outcome = "error")
                 => ops'[o] = ops[o]
      ]_vars

\* pull() has rejected at the second sub-preview, with the list of two entries
\* still pending
C40_Witness ==
    \E o \in DOMAIN ops :
        /\ ops[o].kind = "pull"
        /\ ops[o].outcome = "error"
        /\ Len(ops[o].calls) = 3
        /\ Len(ops[o].list) = 2
        /\ previews # 0
        /\ arrays[previews] = ops[o].list

\* C38: an accept() that was suspended in acceptPreviewContent() while
\* another call on the task completed ends without a TypeError, and the
\* entries of the pending list that belong to other resources than the one
\* it accepted are in the list it leaves.
C38_OverlappedAccept ==
    [][\A o \in DOMAIN ops :
          (/\ ops[o].kind = "accept"
           /\ ops[o].pc = "acceptPreviewContent"
           /\ ops'[o].pc = "done"
           /\ ops'[o].outcome # "error")
              => /\ ops'[o].outcome = "resolved"
                 /\ previews # 0
                 /\ \A k \in DOMAIN arrays[previews] :
                       arrays[previews][k][1] # ops[o].res
                           => \E n \in DOMAIN arrays'[previews'] :
                                  arrays'[previews'][n] = arrays[previews][k]
      ]_vars

(***************************************************************************)
(* Claims about overlapping sync passes.                                    *)
(***************************************************************************)

\* Two passes of the sync task with synchronisers that throw
NextTwoPasses ==
    \/ CreateSyncTask
    \/ TaskRun(MaxPasses)
    \/ \E p \in PassIds : RecoverReturn(p)
    \/ \E p \in PassIds : SyncReturn(p)
    \/ \E p \in PassIds : SyncThrow(p)

SpecTwoPasses == Init /\ [][NextTwoPasses]_vars

\* The resource-local errors among what the synchronisers of a pass threw,
\* from the k-th on, each tagged with its synchroniser's resource
RECURSIVE C_OwnErrorsFrom(_, _)
C_OwnErrorsFrom(thrown, k) ==
    IF k > Len(thrown) THEN <<>>
    ELSE (IF thrown[k][1] # 0 /\ C_ResourceLocal(thrown[k][2])
          THEN <<synchronisers[thrown[k][1]]>> ELSE <<>>)
         \o C_OwnErrorsFrom(thrown, k + 1)

\* The resources of the entries of an error list
C_Resources(errs) == [k \in DOMAIN errs |-> errs[k][1]]

\* C39: the error list a pass fires through onSyncErrors has one entry for
\* each resource-local error that the pass's own synchroniser calls threw,
\* in order, and no other entry, also when another pass overlaps it.
C39_OwnErrorsPublished ==
    \A p \in PassIds :
        (pass[p].pc = "done" /\ pass[p].entered /\ pass[p].overlapped)
            => /\ Len(pass[p].published) = 1
               /\ C_Resources(pass[p].published[1]) = C_OwnErrorsFrom(pass[p].thrown, 1)


(***************************************************************************)
(* Conflicts and status as the synchronisers report them.                   *)
(***************************************************************************)
\* The synchronisers of ss in HasConflicts
C_InConflict(ss) == {i \in DOMAIN ss : ss[i].status = "HasConflicts"}

\* The j-th of them in the order of the list
C_NthInConflict(ss, j) ==
    CHOOSE i \in C_InConflict(ss) : Cardinality({m \in C_InConflict(ss) : m < i}) = j - 1

\* The preview resources of a list of conflicts, in order
C_PreviewResources(cs) == [k \in 1..Len(cs) |-> cs[k].previewResource]

\* list has one entry per synchroniser of ss in HasConflicts, in the order of
\* the synchronisers, tagged with the synchroniser's resource and holding the
\* preview resources of the synchroniser's conflicts, in their order
C_ListOf(list, ss) ==
    /\ Len(list) = Cardinality(C_InConflict(ss))
    /\ \A j \in 1..Len(list) :
           j <= Cardinality(C_InConflict(ss)) =>
               /\ list[j].syncResource = synchronisers[C_NthInConflict(ss, j)]
               /\ C_PreviewResources(list[j].conflicts)
                      = C_PreviewResources(ss[C_NthInConflict(ss, j)].conflicts)

\* C31: onDidChangeConflicts fires only in a step whose recomputed list
\* differs from the list stored before it, in its resources or in the
\* sequence of preview resources of some resource; and after every
\* updateConflicts() the stored list is the recomputed one: one entry per
\* synchroniser now in HasConflicts, in the synchronisers' order, tagged
\* with its resource and holding its conflicting preview resources.
C31_ConflictsNotification ==
    [][/\ ccService'.fired => ~C_ListOf(ccService.conflicts, ccSynchronisers')
       /\ (ccStore /\ ccLast' \in {"updateStatus", "updateConflicts"})
              => C_ListOf(ccService'.conflicts, ccSynchronisers')]_vars

\* A conflicts event was notified with two entries, the first of two conflicts
C31_Witness ==
    /\ ccLast = "updateConflicts"
    /\ ccService.fired
    /\ Len(ccService.conflicts) = 2
    /\ Len(ccService.conflicts[1].conflicts) = 2

\* C36: whenever the service's status is HasConflicts its conflicts list is
\* not empty, and whenever the store is configured and the list is not
\* empty after updateStatus() the status is HasConflicts, whatever the order
\* of the synchronisers' status and conflicts events.
C36_ConflictsMatchStatus ==
    /\ ccService.status = "HasConflicts" => ccService.conflicts # <<>>
    /\ (ccStore /\ ccLast = "updateStatus" /\ ccService.conflicts # <<>>)
           => ccService.status = "HasConflicts"

\* During a pass a synchroniser in HasConflicts reported that it has no
\* conflicts left: its entry stays, empty
C36_Witness ==
    /\ ccPasses > 0
    /\ ccLast = "updateConflicts"
    /\ ccService.status = "HasConflicts"
    /\ Len(ccService.conflicts) = 1
    /\ ccService.conflicts[1].conflicts = <<>>
    /\ ccService.fired
=============================================================================
